---- MODULE Spec2Model ----
(***************************************************************************)
(* Model of the Hebbian network with dopamine-gated learning               *)
(* (src/hebbian_net.py, class Network) and of the older training loop      *)
(* (src/support/hebbianRL.py, RLnetwork).                                  *)
(*                                                                         *)
(* Numbers.  All quantities are integers, a lattice of values on which the *)
(* floating-point operations of the code are exact.  Weights and           *)
(* pre-synaptic activations are counted in units of the clamp floor        *)
(* (1e-10 in the code, W_FLOOR here), performances in units of 1e-4        *)
(* (PerfOne is 1.0), soft-max outputs in units of 1/SmOne.                 *)
(***************************************************************************)
EXTENDS Integers, Sequences, FiniteSets, TLC

(***************************************************************************)
(* Bounds of the model                                                     *)
(***************************************************************************)
MaxAct     == 1   \* activations handed to the learning rule: 0..MaxAct
MaxDopa    == 1   \* per-sample dopamine handed to the rule: -MaxDopa..MaxDopa
MaxLr      == 1   \* learning rates handed to the rule: 0..MaxLr
MaxW0      == 1   \* entries of the matrix the rule starts from: -MaxW0..MaxW0
MaxLSSteps == 2   \* length of a sequence of learning-rule updates

(***************************************************************************)
(* Matrices are sequences of rows; a row is a sequence of integers.        *)
(***************************************************************************)
RECURSIVE SumTo(_, _)
SumTo(f, n) == IF n = 0 THEN 0 ELSE f[n] + SumTo(f, n - 1)

\* the sequence <<f[1], ..., f[n]>>, built element by element
RECURSIVE SeqOf(_, _)
SeqOf(f, n) == IF n = 0 THEN <<>> ELSE Append(SeqOf(f, n - 1), f[n])

NRows(M) == Len(M)
NCols(M) == IF Len(M) = 0 THEN 0 ELSE Len(M[1])

\* np.dot(X, W)
Dot(X, W) ==
  SeqOf([s \in 1..NRows(X) |->
     SeqOf([j \in 1..NCols(W) |->
        SumTo(SeqOf([i \in 1..NRows(W) |-> X[s][i] * W[i][j]], NRows(W)), NRows(W))], NCols(W))], NRows(X))

\* np.dot(X.T, P)
DotT(X, P) ==
  SeqOf([i \in 1..NCols(X) |->
     SeqOf([j \in 1..NCols(P) |->
        SumTo(SeqOf([s \in 1..NRows(X) |-> X[s][i] * P[s][j]], NRows(X)), NRows(X))], NCols(P))], NCols(X))

\* np.sum(P, 0)
ColSum(P) ==
  SeqOf([j \in 1..NCols(P) |-> SumTo(SeqOf([s \in 1..NRows(P) |-> P[s][j]], NRows(P)), NRows(P))], NCols(P))

\* np.ones(n), np.zeros(n)
Ones(n)  == SeqOf([s \in 1..n |-> 1], n)
Zeros(n) == SeqOf([s \in 1..n |-> 0], n)

MatAdd(A, B) == SeqOf([i \in 1..NRows(A) |-> SeqOf([j \in 1..NCols(A) |-> A[i][j] + B[i][j]], NCols(A))], NRows(A))

ZeroMat(n, m) == SeqOf([i \in 1..n |-> SeqOf([j \in 1..m |-> 0], m)], n)

AllAtLeast(M, lo) == \A i \in 1..NRows(M) : \A j \in 1..NCols(M) : M[i][j] >= lo

(***************************************************************************)
(* The learning rule                                                       *)
(***************************************************************************)
\* the floor of np.clip(W, 1e-10, np.inf)
W_FLOOR == 1

\* np.clip(W, lo, np.inf)
ClipLow(W, lo) ==
  SeqOf([i \in 1..NRows(W) |-> SeqOf([j \in 1..NCols(W) |-> IF W[i][j] < lo THEN lo ELSE W[i][j]], NCols(W))], NRows(W))

\* ex.disinhibition(post_neurons, lr, dopa, out):
\* post_neurons * (lr * dopa[:, np.newaxis])
disinhibition(post_neurons, lr, dopa) ==
  SeqOf([s \in 1..NRows(post_neurons) |->
     SeqOf([j \in 1..NCols(post_neurons) |-> post_neurons[s][j] * (lr * dopa[s])], NCols(post_neurons))], NRows(post_neurons))

\* ex.regularization(dot, postNeurons_lr, W, sum_ar):
\* dot - np.sum(postNeurons_lr, 0) * W
regularization(dot, postNeurons_lr, W) ==
  SeqOf([i \in 1..NRows(W) |->
     SeqOf([j \in 1..NCols(W) |-> dot[i][j] - ColSum(postNeurons_lr)[j] * W[i][j]], NCols(W))], NRows(W))

\* the weight change of one step; dopa is <<>> for None
learning_dW(pre_neurons, post_neurons, W, lr, dopa) ==
  LET d   == IF Len(dopa) # NRows(post_neurons) THEN Ones(NRows(post_neurons)) ELSE dopa
      plr == disinhibition(post_neurons, lr, d)
      dot == DotT(pre_neurons, plr)
  IN  regularization(dot, plr, W)

\* the rule with its final clamp left out
learning_step_noclip(pre_neurons, post_neurons, W, lr, dopa, lim_weights) ==
  IF lim_weights
  THEN [err |-> "NameError", W |-> W]
  ELSE [err |-> "none",
        W   |-> MatAdd(W, learning_dW(pre_neurons, post_neurons, W, lr, dopa))]

\* Network._learning_step.  With lim_weights set, the condition of the mask
\* reads the name e, which is not defined in the method: the call raises.
\* Without it the mask is all true and every column takes its change.
learning_step(pre_neurons, post_neurons, W, lr, dopa, lim_weights) ==
  IF lim_weights
  THEN [err |-> "NameError", W |-> W]
  ELSE [err |-> "none",
        W   |-> ClipLow(MatAdd(W, learning_dW(pre_neurons, post_neurons, W, lr, dopa)),
                         W_FLOOR)]


\* the update of the older training loop (RLnetwork): W += dW, then the clamp
RLnetwork_update(pre_neurons, post_neurons, W, lr, disinhib) ==
  ClipLow(MatAdd(W, learning_dW(pre_neurons, post_neurons, W, lr, disinhib)), W_FLOOR)

(***************************************************************************)
(* Random numbers.  np.random is a deterministic generator once seeded:    *)
(* a linear congruential generator with 32 states stands for it.  A draw   *)
(* advances the state and returns it, a number in 0..31 (u/32 in [0,1)).   *)
(***************************************************************************)
RngRange == 32

\* np.random.seed(s)
rng_seed(s) == s % RngRange

rng_next(g) == (5 * g + 3) % RngRange

\* the k-th draw after state g (k >= 1) and the state after k draws
RECURSIVE rng_after(_, _)
rng_after(g, k) == IF k = 0 THEN g ELSE rng_after(rng_next(g), k - 1)

rng_draw(g, k) == rng_after(g, k)

\* np.random.random_sample(size=(n, m)) scaled by `one`: entry (i, j) is the
\* ((i-1)*m + j)-th draw
random_sample(g, n, m, one) ==
  SeqOf([i \in 1..n |-> SeqOf([j \in 1..m |-> (rng_draw(g, (i - 1) * m + j) * one) \div RngRange], m)], n)

\* np.random.normal(0, std, size=(n, m)): std times a draw of -1, 0 or 1
random_normal(g, std, n, m) ==
  SeqOf([i \in 1..n |-> SeqOf([j \in 1..m |-> std * ((rng_draw(g, (i - 1) * m + j) % 3) - 1)], m)], n)

(***************************************************************************)
(* Data: the training images and labels handed to train()                  *)
(***************************************************************************)
\* two images of three pixels; every pixel is lit in some image
DataLit  == [images |-> << <<4, 2, 2>>, <<2, 4, 2>> >>, labels |-> <<0, 1>>]
\* the third pixel is dark in every image (a border pixel)
DataDark == [images |-> << <<6, 2, 0>>, <<2, 6, 0>> >>, labels |-> <<0, 1>>]

DataSets == {DataLit, DataDark}

\* self.classes = np.sort(np.unique(labels)), for labels among 0 and 1
classes_of(labels) ==
  LET has(c) == \E s \in 1..Len(labels) : labels[s] = c
  IN  IF has(0) /\ has(1) THEN <<0, 1>> ELSE IF has(0) THEN <<0>> ELSE <<1>>

(***************************************************************************)
(* Weight initialization                                                   *)
(***************************************************************************)
\* the value 1.0 of a weight
InitOne == 4

\* Network._init_weights_random
init_weights_random(g, n_inp, n_hid, n_out) ==
  LET u_hid == random_sample(g, n_inp, n_hid, InitOne)
      g2    == rng_after(g, n_inp * n_hid)
      u_out == random_sample(g2, n_hid, n_out, InitOne)
  IN  [hid_W |-> SeqOf([i \in 1..n_inp |-> SeqOf([j \in 1..n_hid |-> u_hid[i][j] + InitOne], n_hid)], n_inp),
       out_W |-> SeqOf([i \in 1..n_hid |-> SeqOf([j \in 1..n_out |->
                    ((u_out[i][j] \div 1000) + InitOne) \div n_hid], n_out)], n_hid),
       rng   |-> rng_after(g2, n_hid * n_out),
       err   |-> "none"]

\* Network._init_weights_input: per pixel the mean m_d and the variance v_d
\* over the images; column i of hid_W is m_d + 2 * v_d * random_sample(n_inp)
init_weights_input(g, images, n_inp, n_hid, n_out) ==
  LET n     == Len(images)
      m_d   == SeqOf([p \in 1..n_inp |->
                  SumTo(SeqOf([s \in 1..n |-> images[s][p]], n), n) \div n], n_inp)
      v_d   == SeqOf([p \in 1..n_inp |->
                  SumTo(SeqOf([s \in 1..n |-> (images[s][p] - m_d[p]) * (images[s][p] - m_d[p])], n), n)
                    \div n], n_inp)
      g2    == rng_after(g, n_hid * n_inp)
      u_out == random_sample(g2, n_hid, n_out, InitOne)
  IN  [hid_W |-> SeqOf([p \in 1..n_inp |-> SeqOf([i \in 1..n_hid |->
                    m_d[p] + (2 * v_d[p] * rng_draw(g, (i - 1) * n_inp + p)) \div RngRange], n_hid)], n_inp),
       out_W |-> SeqOf([i \in 1..n_hid |-> SeqOf([j \in 1..n_out |->
                    ((u_out[i][j] \div 1000) + InitOne) \div n_hid], n_out)], n_hid),
       rng   |-> rng_after(g2, n_hid * n_out),
       err   |-> "none"]

\* np.shape(M)
shape(M) == <<NRows(M), IF NRows(M) = 0 THEN 0 ELSE NCols(M)>>

\* the run to load, taken one further
run_to_load_next(run, n_saved) == (run + 1) % n_saved

\* run_to_load = self._r % saved_net.n_runs
run_to_load(run, n_saved) == run % n_saved

\* Network._init_weights_file with both matrices installed one after its own
\* shape test
init_weights_file_eager(init_file, run, n_inp, n_hid, n_out, sv, g, hW, oW) ==
  IF ~(sv.exists /\ sv.name = init_file)
  THEN [err |-> "IOError", hid_W |-> hW, out_W |-> oW, rng |-> g]
  ELSE IF <<n_inp, n_hid>> # shape(sv.hid_W_trained[run_to_load(run, sv.n_runs) + 1])
  THEN [err |-> "ValueError", hid_W |-> hW, out_W |-> oW, rng |-> g]
  ELSE IF <<n_hid, n_out>> # shape(sv.out_W_trained[run_to_load(run, sv.n_runs) + 1])
  THEN [err |-> "ValueError", hid_W |-> sv.hid_W_trained[run_to_load(run, sv.n_runs) + 1],
        out_W |-> oW, rng |-> g]
  ELSE [err |-> "none", hid_W |-> sv.hid_W_trained[run_to_load(run, sv.n_runs) + 1],
        out_W |-> sv.out_W_trained[run_to_load(run, sv.n_runs) + 1], rng |-> g]

\* Network._init_weights_file: the folder must exist; the matrices of run
\* run_to_load of the saved network are copied after both shape tests passed.
\* hW and oW are the matrices of the network when the call is made
init_weights_file(init_file, run, n_inp, n_hid, n_out, sv, g, hW, oW) ==
  IF ~(sv.exists /\ sv.name = init_file)
  THEN [err |-> "IOError", hid_W |-> hW, out_W |-> oW, rng |-> g]
  ELSE IF <<n_inp, n_hid>> # shape(sv.hid_W_trained[run_to_load(run, sv.n_runs) + 1])
  THEN [err |-> "ValueError", hid_W |-> hW, out_W |-> oW, rng |-> g]
  ELSE IF <<n_hid, n_out>> # shape(sv.out_W_trained[run_to_load(run, sv.n_runs) + 1])
  THEN [err |-> "ValueError", hid_W |-> hW, out_W |-> oW, rng |-> g]
  ELSE [err |-> "none", hid_W |-> sv.hid_W_trained[run_to_load(run, sv.n_runs) + 1],
        out_W |-> sv.out_W_trained[run_to_load(run, sv.n_runs) + 1], rng |-> g]

\* Network._init_weights
init_weights(c, run, g, images, n_inp, n_hid, n_out, sv, hW, oW) ==
  IF c.weight_init = "file" /\ c.init_file # ""
  THEN init_weights_file(c.init_file, run, n_inp, n_hid, n_out, sv, g, hW, oW)
  ELSE IF c.weight_init = "random"
  THEN init_weights_random(g, n_inp, n_hid, n_out)
  ELSE IF c.weight_init = "input"
  THEN init_weights_input(g, images, n_inp, n_hid, n_out)
  ELSE [err |-> "ValueError", hid_W |-> hW, out_W |-> oW, rng |-> g]

(***************************************************************************)
(* Activation engine                                                       *)
(***************************************************************************)
\* the value 1.0 of a soft-max output
SmOne == 2
\* exponents below 2^-SmBits underflow to 0
SmBits == 3

RECURSIVE Pow2(_)
Pow2(k) == IF k = 0 THEN 1 ELSE 2 * Pow2(k - 1)

RowMax(row) == CHOOSE x \in {row[j] : j \in 1..Len(row)} :
                 \A j \in 1..Len(row) : row[j] <= x

\* ex.softmax(activ, t=t): per row, 2^((a_j - max)/t) normalised to sum 1,
\* rounded to the nearest multiple of 1/SmOne
softmax(activ, t) ==
  SeqOf([s \in 1..NRows(activ) |->
     LET row  == activ[s]
         mx   == RowMax(row)
         w(j) == LET d == (mx - row[j]) \div t
                 IN  IF d > SmBits THEN 0 ELSE Pow2(SmBits - d)
         tot  == SumTo(SeqOf([j \in 1..Len(row) |-> w(j)], Len(row)), Len(row))
     IN  SeqOf([j \in 1..Len(row) |-> (2 * SmOne * w(j) + tot) \div (2 * tot)], Len(row))], NRows(activ))

\* ex.propagate_layerwise(X, W, SM, t) with log_weights False
propagate_layerwise(X, W, SM, t) ==
  IF SM THEN softmax(Dot(X, W), t) ELSE Dot(X, W)

\* np.argmax(row): the first index of the maximum
argmax(row) == CHOOSE j \in 1..Len(row) :
                 /\ row[j] = RowMax(row)
                 /\ \A k \in 1..(j - 1) : row[k] < row[j]

\* self.classes[np.argmax(M, 1)]
choice(classes, M) == SeqOf([s \in 1..NRows(M) |-> classes[argmax(M[s])]], NRows(M))

\* integer square root of x, searched between lo (low enough) and hi (too high)
RECURSIVE ISqrtBetween(_, _, _)
ISqrtBetween(x, lo, hi) ==
  IF hi - lo <= 1 THEN lo
  ELSE LET mid == (lo + hi) \div 2
       IN  IF mid <= x \div mid THEN ISqrtBetween(x, mid, hi) ELSE ISqrtBetween(x, lo, mid)

ISqrt(x) == IF x <= 0 THEN 0 ELSE ISqrtBetween(x, 1, x + 1)

\* np.std(M) over all entries of M, rounded down
std(M) ==
  LET n   == NRows(M) * NCols(M)
      sx  == SumTo(SeqOf([s \in 1..NRows(M) |-> SumTo(M[s], NCols(M))], NRows(M)), NRows(M))
      sxx == SumTo(SeqOf([s \in 1..NRows(M) |->
                      SumTo(SeqOf([j \in 1..NCols(M) |-> M[s][j] * M[s][j]], NCols(M)), NCols(M))], NRows(M)), NRows(M))
  IN  IF n = 0 THEN 0 ELSE ISqrt(n * sxx - sx * sx) \div n

\* a non-negative real as the model holds it: mag counts whole lattice units,
\* tiny says that a positive amount below one unit is left (1e-20 is such one)
positive(v) == v.mag > 0 \/ v.tiny

\* the product of two such reals
real_mul(a, b) == [mag |-> a.mag * b.mag, tiny |-> positive(a) /\ positive(b) /\ a.mag * b.mag = 0]

\* np.std(M) as such a real: it is 0 exactly when all entries of M are equal
std_real(M) == [mag |-> std(M), tiny |-> std(M) = 0 /\ \E s1, s2 \in 1..NRows(M) : \E j1, j2 \in 1..NCols(M) : M[s1][j1] # M[s2][j2]]

\* np.clip(x, 1e-20, np.inf) of __init__, for a coefficient x given in units
noise_clip(x) == [mag |-> IF x < 0 THEN 0 ELSE x, tiny |-> x <= 0]

\* np.clip(v, 1e-10, np.inf) of the output exploration
std_clip(v) == [mag |-> IF v.mag < W_FLOOR THEN W_FLOOR ELSE v.mag, tiny |-> FALSE]

\* the noise of every sample, whatever the mask says
mask_rows_all(noise, mask) == noise

\* noise * batch_explorative[:, np.newaxis]
mask_rows(noise, mask) ==
  SeqOf([s \in 1..NRows(noise) |-> SeqOf([j \in 1..NCols(noise) |-> IF mask[s] THEN noise[s][j] ELSE 0], NCols(noise))], NRows(noise))

\* ex.exploration(epsilon, batch_size): sample s is explorative when its
\* draw u/32 is below epsilon (epsilon counted in 1/32)
exploration_mask(g, epsilon, batch_size) ==
  SeqOf([s \in 1..batch_size |-> rng_draw(g, s) < epsilon], batch_size)

(***************************************************************************)
(* Phases of an episode                                                    *)
(***************************************************************************)
\* the test `_e >= n_epi_crit + n_epi_fine and _e < n_epi_crit + n_epi_fine
\* + n_epi_dopa`, as written in _propagate_* and _dopa_release
in_dopa_period(c, e) ==
  /\ e >= c.n_epi_crit + c.n_epi_fine
  /\ e < c.n_epi_crit + c.n_epi_fine + c.n_epi_dopa

\* the test `_e < n_epi_crit + n_epi_fine or _e >= n_epi_crit + n_epi_fine
\* + n_epi_dopa`, as written in _dopa_release and _propagate_neural_DA
out_dopa_period(c, e) ==
  \/ e < c.n_epi_crit + c.n_epi_fine
  \/ e >= c.n_epi_crit + c.n_epi_fine + c.n_epi_dopa

\* the test of train() that sets lr_hid to 0: 'fine' and 'post' periods
in_fine_or_post(c, e) ==
  \/ (e >= c.n_epi_crit /\ e < c.n_epi_crit + c.n_epi_fine)
  \/ e >= c.n_epi_crit + c.n_epi_fine + c.n_epi_dopa

train_class_layer(c) == c.classifier = "neural_DA"

\* the test guarding the exploration noise of the hidden layer, with the
\* period left out
explore_hidden_always(c, e) == c.exploration

\* the test guarding the exploration noise of the hidden layer in
\* _propagate_neural_DA and _propagate_neural_prob
explore_hidden(c, e) == c.exploration /\ in_dopa_period(c, e)

(***************************************************************************)
(* Propagation                                                             *)
(***************************************************************************)
\* Network._propagate_neural_DA
propagate_neural_DA(c, e, g, classes, batch_images, hid_W, out_W) ==
  LET bs      == NRows(batch_images)
      n_hid   == NCols(hid_W)
      n_out   == NCols(out_W)
      batch_explorative == exploration_mask(g, c.epsilon_xplr, bs)
      g1      == rng_after(g, bs)
      act0    == propagate_layerwise(batch_images, hid_W, FALSE, c.t_hid)
      hid_activ_std == std_real(act0)
      std_activ == noise_clip(c.noise_activ)
      std_hid == real_mul(hid_activ_std, noise_clip(c.noise_xplr_hid))
      hid_activ == MatAdd(act0, random_normal(g1, std_activ.mag, bs, n_hid))
      g2      == rng_after(g1, bs * n_hid)
      x_hid   == explore_hidden(c, e)
      hid_neurons_greedy == softmax(hid_activ, c.t_hid)
      xplr_hid == IF x_hid
                  THEN mask_rows(random_normal(g2, std_hid.mag, bs, n_hid), batch_explorative)
                  ELSE ZeroMat(bs, n_hid)
      hid_neurons_explore ==
        IF x_hid THEN softmax(MatAdd(hid_activ, xplr_hid), c.t_hid) ELSE hid_neurons_greedy
      g3      == IF x_hid THEN rng_after(g2, bs * n_hid) ELSE g2
      out_activ == propagate_layerwise(hid_neurons_greedy, out_W, FALSE, c.t_out)
      out_neurons_greedy == softmax(out_activ, c.t_out)
      out_neurons_explore_hid ==
        IF x_hid
        THEN propagate_layerwise(hid_neurons_explore, out_W, TRUE, c.t_hid)
        ELSE out_neurons_greedy
      x_out   == (out_dopa_period(c, e) \/ c.train_out_dopa) /\ c.exploration
      std_out == std_clip(real_mul(std_real(out_activ), noise_clip(c.noise_xplr_out)))
      xplr_out == IF x_out
                  THEN mask_rows(random_normal(g3, std_out.mag, bs, n_out), batch_explorative)
                  ELSE ZeroMat(bs, n_out)
      out_neurons_explore_out ==
        IF x_out THEN softmax(MatAdd(out_activ, xplr_out), c.t_out) ELSE out_neurons_greedy
      g4      == IF x_out THEN rng_after(g3, bs * n_out) ELSE g3
  IN  [greedy      |-> choice(classes, out_neurons_greedy),
       explore_hid |-> choice(classes, out_neurons_explore_hid),
       explore_out |-> choice(classes, out_neurons_explore_out),
       explorative |-> batch_explorative,
       hid_neurons_greedy  |-> hid_neurons_greedy,
       hid_neurons_explore |-> hid_neurons_explore,
       out_neurons_greedy |-> out_neurons_greedy,
       out_neurons_explore_out |-> out_neurons_explore_out,
       x_hid |-> x_hid, x_out |-> x_out,
       xplr_hid |-> xplr_hid, xplr_out |-> xplr_out,
       stds |-> [activ |-> positive(std_activ), hid |-> x_hid => positive(std_hid),
                 out |-> x_out => positive(std_out)],
       rng |-> g4, err |-> "none"]

\* np.dot(hid, out_W / np.sum(out_W, 1)[:, np.newaxis]) followed by argmax:
\* the quotients are compared after multiplying by the product of the row
\* sums; a row sum of 0 makes every output NaN, whose argmax is index 0
choice_normed(classes, hid, out_W) ==
  LET n_hid == NRows(out_W)
      n_out == NCols(out_W)
      rs(h) == SumTo(out_W[h], n_out)
      RECURSIVE prod_but(_, _)
      prod_but(h, k) == IF k = 0 THEN 1
                        ELSE (IF k = h THEN 1 ELSE rs(k)) * prod_but(h, k - 1)
      nan   == \E h \in 1..n_hid : rs(h) = 0
      score(s) == SeqOf([j \in 1..n_out |->
                     SumTo(SeqOf([h \in 1..n_hid |-> hid[s][h] * out_W[h][j] * prod_but(h, n_hid)], n_hid),
                           n_hid)], n_out)
  IN  SeqOf([s \in 1..NRows(hid) |-> IF nan THEN classes[1] ELSE classes[argmax(score(s))]], NRows(hid))

\* Network._propagate_neural_prob
propagate_neural_prob(c, e, g, classes, batch_images, hid_W, out_W) ==
  LET bs      == NRows(batch_images)
      n_hid   == NCols(hid_W)
      batch_explorative == exploration_mask(g, c.epsilon_xplr, bs)
      g1      == rng_after(g, bs)
      act0    == propagate_layerwise(batch_images, hid_W, FALSE, c.t_hid)
      hid_activ_std == std_real(act0)
      std_activ == noise_clip(c.noise_activ)
      std_hid == real_mul(hid_activ_std, noise_clip(c.noise_xplr_hid))
      hid_activ == MatAdd(act0, random_normal(g1, std_activ.mag, bs, n_hid))
      g2      == rng_after(g1, bs * n_hid)
      x_hid   == explore_hidden(c, e)
      hid_neurons_greedy == softmax(hid_activ, c.t_hid)
      xplr_hid == IF x_hid
                  THEN mask_rows(random_normal(g2, std_hid.mag, bs, n_hid), batch_explorative)
                  ELSE ZeroMat(bs, n_hid)
      hid_neurons_explore ==
        IF x_hid THEN softmax(MatAdd(hid_activ, xplr_hid), c.t_hid) ELSE hid_neurons_greedy
      g3      == IF x_hid THEN rng_after(g2, bs * n_hid) ELSE g2
  IN  [greedy      |-> choice_normed(classes, hid_neurons_greedy, out_W),
       explore_hid |-> choice_normed(classes, hid_neurons_explore, out_W),
       explore_out |-> <<>>,
       explorative |-> batch_explorative,
       hid_neurons_greedy  |-> hid_neurons_greedy,
       hid_neurons_explore |-> hid_neurons_explore,
       out_neurons_greedy |-> <<>>,
       out_neurons_explore_out |-> <<>>,
       x_hid |-> x_hid, x_out |-> FALSE,
       xplr_hid |-> xplr_hid, xplr_out |-> <<>>,
       stds |-> [activ |-> positive(std_activ), hid |-> x_hid => positive(std_hid),
                 out |-> TRUE],
       rng |-> g3, err |-> "none"]

\* Network._propagate_bayesian
propagate_bayesian(g) == [err |-> "NotImplementedError", rng |-> g]

\* Network._propagate
propagate(c, e, g, classes, batch_images, hid_W, out_W) ==
  IF c.classifier = "bayesian"
  THEN propagate_bayesian(g)
  ELSE IF c.classifier = "neural_DA"
  THEN propagate_neural_DA(c, e, g, classes, batch_images, hid_W, out_W)
  ELSE propagate_neural_prob(c, e, g, classes, batch_images, hid_W, out_W)

\* Network._learn_out_proba: column ic of out_W is the mean, over the images
\* of class classes[ic], of the soft-max hidden activation
learn_out_proba(c, classes, images, labels, hid_W, out_W) ==
  LET hid_activ == propagate_layerwise(images, hid_W, TRUE, c.t_hid)
      n         == Len(labels)
      cnt(k)    == SumTo(SeqOf([s \in 1..n |-> IF labels[s] = k THEN 1 ELSE 0], n), n)
      tot(k, h) == SumTo(SeqOf([s \in 1..n |-> IF labels[s] = k THEN hid_activ[s][h] ELSE 0], n), n)
  IN  SeqOf([h \in 1..NRows(out_W) |->
         SeqOf([ic \in 1..NCols(out_W) |-> tot(classes[ic], h) \div cnt(classes[ic])], NCols(out_W))], NRows(out_W))

(***************************************************************************)
(* Reward and dopamine                                                     *)
(***************************************************************************)
\* ex.reward_prediction(explorative, compare_output, greedy, explore)
reward_prediction(explorative, compare_output, greedy, explore) ==
  SeqOf([s \in 1..Len(explorative) |->
     IF compare_output THEN greedy[s] = explore[s] ELSE ~explorative[s]], Len(explorative))

\* ex.reward_delivery(labels, actions)
reward_delivery(labels, actions) ==
  SeqOf([s \in 1..Len(labels) |-> labels[s] = actions[s]], Len(labels))

\* ex.compute_dopa(predicted_reward, reward, dopa_values)
compute_dopa(predicted_reward, reward, dopa_values) ==
  SeqOf([s \in 1..Len(reward) |->
     IF reward[s]
     THEN (IF predicted_reward[s] THEN dopa_values.dMid ELSE dopa_values.dHigh)
     ELSE (IF predicted_reward[s] THEN dopa_values.dLow ELSE dopa_values.dNeut)], Len(reward))

\* the output-layer table, taken from the *_out parameters whatever
\* dopa_out_same says
dopa_values_out_own(c) == c.dopa_values_out

\* the output-layer table set up by Network.__init__
dopa_values_out(c) == IF c.dopa_out_same THEN c.dopa_values ELSE c.dopa_values_out

\* _dopa_release with the output layer also given the table in the
\* dopamine period ('continuous learning' of the output layer)
dopa_release_both(c, e, batch_size, predicted_reward_hid, predicted_reward_out, reward_hid, reward_out) ==
  IF out_dopa_period(c, e) /\ train_class_layer(c)
  THEN [branch |-> "out", dopa_hid |-> Ones(batch_size),
        dopa_out |-> compute_dopa(predicted_reward_out, reward_out, dopa_values_out(c))]
  ELSE IF in_dopa_period(c, e)
  THEN [branch |-> "hid",
        dopa_hid |-> compute_dopa(predicted_reward_hid, reward_hid, c.dopa_values),
        dopa_out |-> compute_dopa(predicted_reward_hid, reward_hid, dopa_values_out(c))]
  ELSE [branch |-> "none", dopa_hid |-> Ones(batch_size), dopa_out |-> Ones(batch_size)]

\* Network._dopa_release
dopa_release(c, e, batch_size, predicted_reward_hid, predicted_reward_out, reward_hid, reward_out) ==
  IF out_dopa_period(c, e) /\ train_class_layer(c)
  THEN [branch |-> "out", dopa_hid |-> Ones(batch_size),
        dopa_out |-> compute_dopa(predicted_reward_out, reward_out, dopa_values_out(c))]
  ELSE IF in_dopa_period(c, e)
  THEN [branch |-> "hid",
        dopa_hid |-> compute_dopa(predicted_reward_hid, reward_hid, c.dopa_values),
        dopa_out |-> Zeros(batch_size)]
  ELSE [branch |-> "none", dopa_hid |-> Ones(batch_size), dopa_out |-> Ones(batch_size)]

(***************************************************************************)
(* Performance trace and early stop                                        *)
(***************************************************************************)
\* the performance 1.0; a performance is counted in units of 1e-4
PerfOne == 10000
\* the marker np.ones(...) * -1 of an entry not written yet
PerfUnset == -PerfOne

\* perf[r, lo:hi] of the code, as the sequence of the entries of episodes
\* lo..hi-1 (row indices are episode + 1)
perf_slice(row, lo, hi) == SeqOf([i \in 1..(hi - lo) |-> row[lo + i]], (hi - lo))

SeqMax(q) == CHOOSE x \in {q[i] : i \in 1..Len(q)} : \A i \in 1..Len(q) : q[i] <= x
SeqMin(q) == CHOOSE x \in {q[i] : i \in 1..Len(q)} : \A i \in 1..Len(q) : q[i] >= x

\* (perf == 1.0).all()
all_one(q) == \A i \in 1..Len(q) : q[i] = PerfOne

\* perf < 1./n_out_neurons + 1e-5
below_chance(x, n_out) == x * 10 * n_out < 10 * PerfOne + n_out

\* ((np.roll(perf, -1) - perf)[:-1] < 0).all()
decreasing(q) == \A i \in 1..(Len(q) - 1) : q[i + 1] - q[i] < 0

\* np.max(p_range) - np.min(p_range) <= t
flat(q, t) == SeqMax(q) - SeqMin(q) <= t

\* n_epi = 5 of the 'decreasing' check
N_EPI_DECR == 5

\* n_epi = [10, 20], threshold = [0.0001, 0.0005] of the 'plateau' check
plateau_conds ==
  << [n_epi |-> 10, threshold |-> 1, epi_cond |-> "10", threshold_cond |-> "0.0001"],
     [n_epi |-> 20, threshold |-> 5, epi_cond |-> "20", threshold_cond |-> "0.0005"] >>

\* the record the 'decreasing' check appends: it reuses 'max_perf'
decr_record(e) ==
  [epi |-> e, epi_cond |-> "max_perf", threshold_cond |-> "max_perf", by |-> "decreasing"]

\* the 'performance is maximal' check of _assess_early_stop, with the last
\* two episodes looked at as soon as there are two
cond_max_perf_from_1(c, e, train_row, test_row) ==
  /\ e >= 1
  /\ all_one(perf_slice(train_row, e - 1, e + 1))
  /\ (c.test_each_epi => all_one(perf_slice(test_row, e - 1, e + 1)))

\* the 'performance is maximal' check of _assess_early_stop
cond_max_perf(c, e, train_row, test_row) ==
  /\ e >= 2
  /\ all_one(perf_slice(train_row, e - 1, e + 1))
  /\ (c.test_each_epi => all_one(perf_slice(test_row, e - 1, e + 1)))

\* the 'performance is minimal' check
cond_min_perf(c, e, train_row, test_row, n_out) ==
  /\ below_chance(train_row[e + 1], n_out)
  /\ (c.test_each_epi => below_chance(test_row[e + 1], n_out))

\* the 'performance is decreasing' check
cond_decreasing(c, e, train_row, test_row) ==
  /\ e >= N_EPI_DECR
  /\ decreasing(perf_slice(train_row, e - N_EPI_DECR, e))
  /\ (c.test_each_epi => decreasing(perf_slice(test_row, e - N_EPI_DECR, e)))

\* one round of the 'plateau' loop, over the window that ends with the
\* episode just recorded
cond_plateau_incl(c, e, train_row, test_row, pc_) ==
  /\ e + 1 >= pc_.n_epi
  /\ flat(perf_slice(train_row, e + 1 - pc_.n_epi, e + 1), pc_.threshold)
  /\ (c.test_each_epi => flat(perf_slice(test_row, e + 1 - pc_.n_epi, e + 1), pc_.threshold))

\* one round of the 'plateau' loop: the window is perf[e - n_epi : e]
cond_plateau(c, e, train_row, test_row, pc_) ==
  /\ e >= pc_.n_epi
  /\ flat(perf_slice(train_row, e - pc_.n_epi, e), pc_.threshold)
  /\ (c.test_each_epi => flat(perf_slice(test_row, e - pc_.n_epi, e), pc_.threshold))

\* Network._assess_early_stop: the value returned and the records appended
\* to _early_stop_cond.  The field `by` of a record is bookkeeping of the
\* model: the check that appended it.
assess_early_stop(c, e, train_row, test_row, n_out) ==
  IF ~c.early_stop THEN [ret |-> FALSE, recs |-> <<>>]
  ELSE IF cond_max_perf(c, e, train_row, test_row)
  THEN [ret |-> TRUE,
        recs |-> << [epi |-> e, epi_cond |-> "max_perf", threshold_cond |-> "max_perf",
                     by |-> "ceiling"] >>]
  ELSE IF cond_min_perf(c, e, train_row, test_row, n_out)
  THEN [ret |-> TRUE,
        recs |-> << [epi |-> e, epi_cond |-> "min_perf", threshold_cond |-> "min_perf",
                     by |-> "floor"] >>]
  ELSE IF cond_decreasing(c, e, train_row, test_row)
  THEN [ret |-> TRUE, recs |-> << decr_record(e) >>]
  ELSE IF cond_plateau(c, e, train_row, test_row, plateau_conds[1])
  THEN [ret |-> TRUE,
        recs |-> << [epi |-> e, epi_cond |-> plateau_conds[1].epi_cond,
                     threshold_cond |-> plateau_conds[1].threshold_cond, by |-> "plateau"] >>]
  ELSE IF cond_plateau(c, e, train_row, test_row, plateau_conds[2])
  THEN [ret |-> TRUE,
        recs |-> << [epi |-> e, epi_cond |-> plateau_conds[2].epi_cond,
                     threshold_cond |-> plateau_conds[2].threshold_cond, by |-> "plateau"] >>]
  ELSE [ret |-> FALSE, recs |-> <<>>]

(***************************************************************************)
(* State                                                                   *)
(***************************************************************************)
VARIABLES
  cfg,              \* the parameters of Network.__init__ and the data of train()
  pc,               \* position in train()
  r, e, b,          \* self._r, self._e, self._b
  rng,              \* state of np.random
  hid_W, out_W,     \* the live weight matrices
  hid_W_naive, out_W_naive, hid_W_trained, out_W_trained,   \* per-run snapshots
  perf_train_prog, perf_test_prog,                          \* per-run, per-episode traces
  early_stop_cond,  \* self._early_stop_cond
  rnd,              \* rnd_images, rnd_labels of the episode
  correct,          \* correct greedy choices of the episode so far
  step,             \* what the last batch decided: learning rates, dopamine, exploration
  es_last,          \* bookkeeping: the last call of _assess_early_stop, its run and
                    \* episode, the value it returned, the records it appended
  epi_log,          \* bookkeeping: the episodes started in the current run, in order
  stop_epi,         \* bookkeeping: per run, the episode an early stop fired at, or -1
  ref_naive,        \* bookkeeping: per run, the weights when the latest critical or
                    \* fine episode ended (the initial ones when there is none)
  n_updates,        \* bookkeeping: batches executed in the current run
  ls_W, ls_n, ls_err,  \* SpecLS: matrix under update, updates applied, error raised
  err,              \* the exception that ended __init__ or train(), or "none"
  outdir,           \* the output directory was created or overwritten (ex.checkdir)
  saved,            \* the network pickled under output/<init_file>, if there is one
  perf_dict         \* self.perf_dict, written by test() after training

train_vars == <<cfg, pc, r, e, b, rng, hid_W, out_W, hid_W_naive, out_W_naive,
                hid_W_trained, out_W_trained, perf_train_prog, perf_test_prog,
                early_stop_cond, rnd, correct, step, es_last, epi_log, stop_epi,
                ref_naive, n_updates>>

ls_vars == <<ls_W, ls_n, ls_err>>

env_vars == <<err, outdir, saved>>

test_vars == <<perf_dict>>

vars == <<train_vars, ls_vars, env_vars, test_vars>>

(***************************************************************************)
(* Configurations                                                          *)
(***************************************************************************)
MaxRuns == 2   \* n_runs: 1..MaxRuns
MaxEpi  == 1   \* episodes of each of the four periods: 0..MaxEpi
MaxSeed == 1   \* seed: 0..MaxSeed

\* seed=None, the default of the seed parameter
NoSeed == -1

\* lr_out = 5e-7, the rate train() writes for the 'fine' and 'post' periods
LR_OUT_FINE_POST == 1

\* the dopamine table of the hidden layer and the separate one of the output
DopaTable    == [dHigh |-> 3, dMid |-> 2, dNeut |-> 0, dLow |-> -1]
DopaTableOut == [dHigh |-> 0, dMid |-> 2, dNeut |-> -3, dLow |-> -5]

\* the parameters that are the same in every configuration of the model
BaseConfig ==
  [n_hid_neurons |-> 2, batch_size |-> 1, lr_hid |-> 1, lr_out |-> 1,
   t_hid |-> 4, t_out |-> 1, epsilon_xplr |-> 16, noise_activ |-> 1,
   noise_xplr_hid |-> 1, noise_xplr_out |-> 1, exploration |-> TRUE,
   compare_output |-> FALSE, train_out_dopa |-> FALSE, dopa_out_same |-> TRUE,
   dopa_values |-> DopaTable, dopa_values_out |-> DopaTableOut,
   lim_weights |-> FALSE, test_each_epi |-> FALSE, block_feedback |-> FALSE,
   protocol |-> "digit", pdf_method |-> "fit", pypet |-> FALSE, init_file |-> "",
   data_test |-> DataLit]

WithFields(base, f) == [k \in (DOMAIN base) \cup (DOMAIN f) |->
                          IF k \in DOMAIN f THEN f[k] ELSE base[k]]

Configs ==
  { WithFields(BaseConfig,
      [n_runs |-> nr, n_epi_crit |-> nc, n_epi_fine |-> nf, n_epi_dopa |-> nd,
       n_epi_post |-> np, classifier |-> cl, early_stop |-> es, weight_init |-> wi,
       seed |-> sd, data |-> dt]) :
      nr \in 1..MaxRuns, nc \in 0..MaxEpi, nf \in 0..MaxEpi, nd \in 0..MaxEpi,
      np \in 0..MaxEpi, cl \in {"neural_prob", "neural_DA"}, es \in BOOLEAN,
      wi \in {"random", "input"}, sd \in 0..MaxSeed, dt \in DataSets }

\* quantities train() derives from the configuration and the data
images     == cfg.data.images
labels     == cfg.data.labels
classes    == classes_of(labels)
n_out_neurons == Len(classes)
n_inp_neurons == NCols(images)
\* the number of episodes of a run, with the post period left out
n_epi_tot_no_post == cfg.n_epi_crit + cfg.n_epi_fine + cfg.n_epi_dopa
\* self.n_epi_tot
n_epi_tot  == cfg.n_epi_crit + cfg.n_epi_fine + cfg.n_epi_dopa + cfg.n_epi_post
n_images   == NRows(images)
n_batches  == n_images \div cfg.batch_size

NoStep == [lr_hid |-> 0, lr_out |-> 0, dopa_hid |-> <<>>, dopa_out |-> <<>>,
           branch |-> "none", x_hid |-> FALSE, x_out |-> FALSE,
           predicted_reward_hid |-> <<>>, predicted_reward_out |-> <<>>,
           reward_hid |-> <<>>, reward_out |-> <<>>, e |-> -1, r |-> -1,
           greedy |-> <<>>, explore_hid |-> <<>>, explore_out |-> <<>>,
           explorative |-> <<>>, same_hid |-> TRUE, same_out |-> TRUE,
           xplr_hid |-> <<>>, xplr_out |-> <<>>, same_hid_rows |-> <<>>,
           stds |-> [activ |-> TRUE, hid |-> TRUE, out |-> TRUE]]

NoCall == [called |-> FALSE, r |-> -1, e |-> -1, ret |-> FALSE, recs |-> <<>>]

NoRef == [set |-> FALSE, hid |-> <<>>, out |-> <<>>]

\* test() has not been called after training
NoPerf == [set |-> FALSE, perf_all |-> <<>>, CM_all |-> <<>>, class_results |-> <<>>, rng_at |-> <<>>]

\* no network is pickled under output/<init_file>
NoSaved == [exists |-> FALSE, name |-> "", n_runs |-> 0, hid_W_trained |-> <<>>, out_W_trained |-> <<>>]

ls_idle == ls_W = <<>> /\ ls_n = 0 /\ ls_err = "none"

\* the state after Network.__init__
Constructed ==
  /\ pc = "constructed"
  /\ r = 0 /\ e = 0 /\ b = 0
  /\ rng = rng_seed(cfg.seed)
  /\ hid_W = <<>> /\ out_W = <<>>
  /\ hid_W_naive = <<>> /\ out_W_naive = <<>>
  /\ hid_W_trained = <<>> /\ out_W_trained = <<>>
  /\ perf_train_prog = <<>> /\ perf_test_prog = <<>>
  /\ early_stop_cond = <<>>
  /\ rnd = [images |-> <<>>, labels |-> <<>>]
  /\ correct = 0
  /\ step = NoStep
  /\ es_last = NoCall
  /\ epi_log = <<>>
  /\ stop_epi = <<>>
  /\ ref_naive = <<>>
  /\ n_updates = 0
  /\ err = "none"
  /\ outdir = ~cfg.pypet
  /\ perf_dict = NoPerf

Init ==
  /\ cfg \in Configs
  /\ Constructed
  /\ saved = NoSaved
  /\ ls_idle

(***************************************************************************)
(* train()                                                                 *)
(***************************************************************************)
\* ex.shuffle: a permutation of 1..n drawn with n - 1 draws; element k is
\* inserted at a drawn position among the k - 1 elements placed before
RECURSIVE shuffle_perm(_, _)
shuffle_perm(g, n) ==
  IF n <= 1 THEN SeqOf([i \in 1..n |-> i], n)
  ELSE LET prev == shuffle_perm(g, n - 1)
           pos  == (rng_draw(g, n - 1) % n) + 1
       IN  SeqOf([i \in 1..n |-> IF i < pos THEN prev[i] ELSE IF i = pos THEN n ELSE prev[i - 1]], n)

shuffle(g, imgs, labs) ==
  LET n    == Len(imgs)
      perm == shuffle_perm(g, n)
  IN  [images |-> SeqOf([i \in 1..n |-> imgs[perm[i]]], n),
       labels |-> SeqOf([i \in 1..n |-> labs[perm[i]]], n),
       rng    |-> rng_after(g, IF n = 0 THEN 0 ELSE n - 1)]

\* the first lines of train(): the arrays of the training call (the model
\* follows train() for the 'digit' protocol)
TrainBegin ==
  /\ pc = "constructed"
  /\ cfg.protocol = "digit"
  /\ hid_W_naive' = SeqOf([i \in 1..cfg.n_runs |-> ZeroMat(n_inp_neurons, cfg.n_hid_neurons)], cfg.n_runs)
  /\ hid_W_trained' = SeqOf([i \in 1..cfg.n_runs |-> ZeroMat(n_inp_neurons, cfg.n_hid_neurons)], cfg.n_runs)
  /\ out_W_naive' = SeqOf([i \in 1..cfg.n_runs |-> ZeroMat(cfg.n_hid_neurons, n_out_neurons)], cfg.n_runs)
  /\ out_W_trained' = SeqOf([i \in 1..cfg.n_runs |-> ZeroMat(cfg.n_hid_neurons, n_out_neurons)], cfg.n_runs)
  /\ perf_train_prog' = SeqOf([i \in 1..cfg.n_runs |-> SeqOf([k \in 1..n_epi_tot |-> PerfUnset], n_epi_tot)], cfg.n_runs)
  /\ perf_test_prog' = IF cfg.test_each_epi
                       THEN SeqOf([i \in 1..cfg.n_runs |-> SeqOf([k \in 1..n_epi_tot |-> PerfUnset], n_epi_tot)], cfg.n_runs)
                       ELSE <<>>
  /\ stop_epi' = SeqOf([i \in 1..cfg.n_runs |-> -1], cfg.n_runs)
  /\ ref_naive' = SeqOf([i \in 1..cfg.n_runs |-> NoRef], cfg.n_runs)
  /\ r' = 0
  /\ pc' = "run_start"
  /\ UNCHANGED <<cfg, e, b, rng, hid_W, out_W, early_stop_cond, rnd, correct, step,
                 es_last, epi_log, n_updates, ls_vars, env_vars, test_vars>>

\* head of the loop over runs: seed, initialize the weights.  self.seed + r
\* raises TypeError when the seed is None; _init_weights may raise
RunStart ==
  /\ pc = "run_start"
  /\ r < cfg.n_runs
  /\ LET Raise(kind, g, hW, oW) ==
           /\ pc' = "error"
           /\ err' = kind
           /\ rng' = g
           /\ hid_W' = hW
           /\ out_W' = oW
           /\ UNCHANGED <<e, n_updates, epi_log, ref_naive>>
         Install(w) ==
           IF w.err # "none" THEN Raise(w.err, w.rng, w.hid_W, w.out_W)
           ELSE /\ hid_W' = w.hid_W
                /\ out_W' = w.out_W
                /\ rng' = w.rng
                /\ ref_naive' = [ref_naive EXCEPT ![r + 1] =
                                   IF cfg.n_epi_crit + cfg.n_epi_fine = 0
                                   THEN [set |-> TRUE, hid |-> w.hid_W, out |-> w.out_W]
                                   ELSE NoRef]
                /\ e' = 0
                /\ n_updates' = 0
                /\ epi_log' = <<>>
                /\ pc' = IF n_epi_tot > 0 THEN "epi_start" ELSE "run_end"
                /\ err' = err
     IN  IF cfg.seed = NoSeed
         THEN Raise("TypeError", rng, hid_W, out_W)
         ELSE Install(init_weights(cfg, r, rng_seed(cfg.seed + r), images, n_inp_neurons,
                                   cfg.n_hid_neurons, n_out_neurons, saved, hid_W, out_W))
  /\ UNCHANGED <<cfg, r, b, hid_W_naive, out_W_naive, hid_W_trained, out_W_trained,
                 perf_train_prog, perf_test_prog, early_stop_cond, rnd, correct, step,
                 es_last, stop_epi, ls_vars, outdir, saved, test_vars>>

\* the condition under which the head of the episode loop stores the naive
\* weights
naive_at_epi_start(c, ep) == ep = c.n_epi_crit + c.n_epi_fine

\* head of the loop over episodes: naive snapshot, shuffle
EpisodeStart ==
  /\ pc = "epi_start"
  /\ e < n_epi_tot
  /\ IF naive_at_epi_start(cfg, e)
     THEN /\ hid_W_naive' = [hid_W_naive EXCEPT ![r + 1] = hid_W]
          /\ out_W_naive' = [out_W_naive EXCEPT ![r + 1] = out_W]
     ELSE UNCHANGED <<hid_W_naive, out_W_naive>>
  /\ LET sh == shuffle(rng, images, labels)
     IN  /\ rnd' = [images |-> sh.images, labels |-> sh.labels]
         /\ rng' = sh.rng
  /\ correct' = 0
  /\ b' = 0
  /\ epi_log' = Append(epi_log, e)
  /\ pc' = IF n_batches > 0 THEN "batch" ELSE "epi_end"
  /\ UNCHANGED <<cfg, r, e, hid_W, out_W, hid_W_trained, out_W_trained,
                 perf_train_prog, perf_test_prog, early_stop_cond, step, es_last,
                 stop_epi, ref_naive, n_updates, ls_vars, env_vars, test_vars>>

\* the learning rates of a batch, with the test for the 'fine' period off by one
batch_rates_late(c, ep) ==
  IF (ep > c.n_epi_crit /\ ep < c.n_epi_crit + c.n_epi_fine)
     \/ ep >= c.n_epi_crit + c.n_epi_fine + c.n_epi_dopa
  THEN [lr_hid |-> 0, lr_out |-> LR_OUT_FINE_POST]
  ELSE [lr_hid |-> c.lr_hid, lr_out |-> c.lr_out]

\* the learning rates of a batch
batch_rates(c, ep) ==
  IF in_fine_or_post(c, ep)
  THEN [lr_hid |-> 0, lr_out |-> LR_OUT_FINE_POST]
  ELSE [lr_hid |-> c.lr_hid, lr_out |-> c.lr_out]

\* np.ones_like(dopa) * np.mean(dopa)
block_mean(dopa) == SeqOf([s \in 1..Len(dopa) |-> SumTo(dopa, Len(dopa)) \div Len(dopa)], Len(dopa))

\* rnd_images[b*batch_size:(b+1)*batch_size] (and the same for the labels)
batch_slice(q, k, bs) == SeqOf([s \in 1..bs |-> q[k * bs + s]], bs)

\* reward prediction and reward of a batch, for the two layers
batch_rewards(c, batch_labels, pr) ==
  [predicted_reward_hid |->
     reward_prediction(pr.explorative, c.compare_output, pr.greedy, pr.explore_hid),
   predicted_reward_out |->
     IF train_class_layer(c)
     THEN reward_prediction(pr.explorative, c.compare_output, pr.greedy, pr.explore_out)
     ELSE <<>>,
   reward_hid |-> reward_delivery(batch_labels, pr.explore_hid),
   reward_out |-> IF train_class_layer(c)
                  THEN reward_delivery(batch_labels, pr.explore_out) ELSE <<>>]

\* the dopamine of a batch: _dopa_release, then block feedback
batch_dopa(c, ep, rw) ==
  LET dr == dopa_release(c, ep, c.batch_size, rw.predicted_reward_hid,
                         rw.predicted_reward_out, rw.reward_hid, rw.reward_out)
  IN  [branch   |-> dr.branch,
       dopa_hid |-> IF c.block_feedback THEN block_mean(dr.dopa_hid) ELSE dr.dopa_hid,
       dopa_out |-> dr.dopa_out]

\* the two learning steps of a batch
batch_weights(c, batch_images, pr, lr, dp, hW, oW) ==
  LET uh == learning_step(batch_images, pr.hid_neurons_explore, hW, lr.lr_hid,
                          dp.dopa_hid, c.lim_weights)
  IN  IF uh.err # "none" THEN [err |-> uh.err, hid_W |-> hW, out_W |-> oW]
      ELSE IF ~train_class_layer(c) THEN [err |-> "none", hid_W |-> uh.W, out_W |-> oW]
      ELSE LET uo == learning_step(pr.hid_neurons_greedy, pr.out_neurons_explore_out, oW,
                                   lr.lr_out, dp.dopa_out, c.lim_weights)
           IN  [err |-> uo.err, hid_W |-> uh.W, out_W |-> uo.W]

\* np.sum(greedy == batch_labels)
batch_hits(greedy, batch_labels) ==
  SumTo(SeqOf([s \in 1..Len(greedy) |-> IF greedy[s] = batch_labels[s] THEN 1 ELSE 0], Len(greedy)), Len(greedy))

\* body of the loop over mini-batches
Batch ==
  /\ pc = "batch"
  /\ b < n_batches
  /\ LET Store(pr, rw, dp, lr, up, hits) ==
           /\ rng' = pr.rng
           /\ step' = [lr_hid |-> lr.lr_hid, lr_out |-> lr.lr_out,
                       dopa_hid |-> dp.dopa_hid, dopa_out |-> dp.dopa_out,
                       branch |-> dp.branch, x_hid |-> pr.x_hid, x_out |-> pr.x_out,
                       predicted_reward_hid |-> rw.predicted_reward_hid,
                       predicted_reward_out |-> rw.predicted_reward_out,
                       reward_hid |-> rw.reward_hid, reward_out |-> rw.reward_out,
                       e |-> e, r |-> r,
                       greedy |-> pr.greedy, explore_hid |-> pr.explore_hid,
                       explore_out |-> pr.explore_out, explorative |-> pr.explorative,
                       same_hid |-> pr.hid_neurons_explore = pr.hid_neurons_greedy,
                       same_out |-> pr.out_neurons_explore_out = pr.out_neurons_greedy,
                       xplr_hid |-> pr.xplr_hid, xplr_out |-> pr.xplr_out,
                       same_hid_rows |->
                         SeqOf([s \in 1..Len(pr.greedy) |->
                                  pr.hid_neurons_explore[s] = pr.hid_neurons_greedy[s]],
                               Len(pr.greedy)),
                       stds |-> pr.stds]
           /\ hid_W' = up.hid_W
           /\ out_W' = up.out_W
           /\ err' = up.err
           /\ IF up.err # "none"
              THEN /\ pc' = "error"
                   /\ UNCHANGED <<b, correct, n_updates>>
              ELSE /\ correct' = correct + hits
                   /\ b' = b + 1
                   /\ n_updates' = n_updates + 1
                   /\ pc' = IF b + 1 < n_batches THEN "batch" ELSE "epi_end"
         Learn(batch_images, batch_labels, pr, rw, dp, lr) ==
           Store(pr, rw, dp, lr,
                 batch_weights(cfg, batch_images, pr, lr, dp, hid_W, out_W),
                 batch_hits(pr.greedy, batch_labels))
         Release(batch_images, batch_labels, pr, rw) ==
           Learn(batch_images, batch_labels, pr, rw, batch_dopa(cfg, e, rw),
                 batch_rates(cfg, e))
         Reward(batch_images, batch_labels, pr) ==
           Release(batch_images, batch_labels, pr, batch_rewards(cfg, batch_labels, pr))
         Check(batch_images, batch_labels, pr) ==
           IF pr.err # "none"
           THEN /\ pc' = "error"
                /\ err' = pr.err
                /\ rng' = pr.rng
                /\ UNCHANGED <<b, correct, n_updates, step, hid_W, out_W>>
           ELSE Reward(batch_images, batch_labels, pr)
         Propagate(batch_images, batch_labels) ==
           Check(batch_images, batch_labels,
                 propagate(cfg, e, rng, classes, batch_images, hid_W, out_W))
     IN  Propagate(batch_slice(rnd.images, b, cfg.batch_size),
                   batch_slice(rnd.labels, b, cfg.batch_size))
  /\ UNCHANGED <<cfg, r, e, hid_W_naive, out_W_naive, hid_W_trained, out_W_trained,
                 perf_train_prog, perf_test_prog, early_stop_cond, rnd, es_last, epi_log,
                 stop_epi, ref_naive, ls_vars, outdir, saved, test_vars>>

\* the condition under which _assess_perf_progress stores the naive weights,
\* made to hold in every later episode too
naive_at_epi_end_onwards(c, ep) == ep >= c.n_epi_crit + c.n_epi_fine - 1

\* the condition under which _assess_perf_progress stores the naive weights
naive_at_epi_end(c, ep) == ep = c.n_epi_crit + c.n_epi_fine - 1

\* the entry _assess_perf_progress writes, written one episode too far
perf_index_next(ep) == ep + 2

\* the entry of a row of perf_train_prog that _assess_perf_progress writes
perf_index(ep) == ep + 1

(***************************************************************************)
(* test()                                                                  *)
(***************************************************************************)
\* the output matrix test() classifies with: the local out_W under
\* 'neural_DA', the attribute self.out_W under 'neural_prob'
test_out_W(c, oW_run, oW_live) ==
  IF c.classifier = "neural_prob" THEN oW_live ELSE oW_run

\* the classifier of test() on the test images (SM and t of the last
\* propagate_layerwise are the helper's defaults, taken as True and 1)
test_classify(c, g, cls, images_test, hW, oW) ==
  LET n     == NRows(images_test)
      n_hid == NCols(hW)
      std_activ == noise_clip(c.noise_activ)
      hidNeurons == softmax(MatAdd(propagate_layerwise(images_test, hW, FALSE, c.t_hid),
                                   random_normal(g, std_activ.mag, n, n_hid)), c.t_hid)
  IN  IF c.classifier = "neural_DA"
      THEN choice(cls, propagate_layerwise(hidNeurons, oW, TRUE, 1))
      ELSE choice_normed(cls, hidNeurons, oW)

\* the draws test() takes from np.random for one run
test_draws(images_test, hW) == NRows(images_test) * NCols(hW)

\* float(np.sum(classResults == labels_test)) / len(labels_test)
correct_classif(classResults, labels_test) ==
  (batch_hits(classResults, labels_test) * PerfOne) \div Len(labels_test)

\* the value of a quotient 0/0 of numpy
NaN == -1

\* the classification matrix of a run: per label, the fraction of its
\* images classified as each class
confusion_matrix(cls, classResults, labels_test) ==
  LET n == Len(labels_test)
      cnt(l, k) == SumTo(SeqOf([s \in 1..n |-> IF labels_test[s] = l /\ classResults[s] = k
                                                THEN 1 ELSE 0], n), n)
      tot(l) == SumTo(SeqOf([s \in 1..n |-> IF labels_test[s] = l THEN 1 ELSE 0], n), n)
  IN  SeqOf([il \in 1..Len(cls) |-> SeqOf([ic \in 1..Len(cls) |->
         IF tot(cls[il]) = 0 THEN NaN
         ELSE (cnt(cls[il], cls[ic]) * PerfOne) \div tot(cls[il])], Len(cls))], Len(cls))

\* test(images_dict, labels_dict, during_training=True): the live weights
test_during_training(c, g, cls, data_test, hW, oW) ==
  correct_classif(test_classify(c, g, cls, data_test.images, hW, test_out_W(c, oW, oW)),
                  data_test.labels)

\* test(images_dict, labels_dict): the loop over the runs, each on its
\* trained matrices, and the dictionary stored in self.perf_dict
test_after_training(c, g, cls, data_test, hWs, oWs, oW_live) ==
  LET n_runs == c.n_runs
      g_at(iw) == rng_after(g, (iw - 1) * test_draws(data_test.images, hWs[1]))
      res(iw) == test_classify(c, g_at(iw), cls, data_test.images, hWs[iw],
                               test_out_W(c, oWs[iw], oW_live))
  IN  [set |-> TRUE,
       perf_all |-> SeqOf([iw \in 1..n_runs |-> correct_classif(res(iw), data_test.labels)], n_runs),
       CM_all |-> SeqOf([iw \in 1..n_runs |-> confusion_matrix(cls, res(iw), data_test.labels)], n_runs),
       class_results |-> SeqOf([iw \in 1..n_runs |->
                           SeqOf([s \in 1..Len(data_test.labels) |-> res(iw)[s] = data_test.labels[s]],
                                 Len(data_test.labels))], n_runs),
       rng_at |-> SeqOf([iw \in 1..n_runs |-> g_at(iw)], n_runs)]

\* the call of test() on a trained network, with the normalised output
\* weights stored back into self.out_W
Test_in_place ==
  /\ pc = "done"
  /\ perf_dict' = test_after_training(cfg, rng, classes, cfg.data_test, hid_W_trained,
                                      out_W_trained, out_W)
  /\ rng' = rng_after(rng, cfg.n_runs * test_draws(cfg.data_test.images, hid_W))
  /\ pc' = "tested"
  /\ out_W' = SeqOf([i \in 1..NRows(out_W) |-> SeqOf([j \in 1..NCols(out_W) |->
                  IF SumTo(out_W[i], NCols(out_W)) = 0 THEN 0
                  ELSE (out_W[i][j] * SmOne) \div SumTo(out_W[i], NCols(out_W))],
                  NCols(out_W))], NRows(out_W))
  /\ UNCHANGED <<cfg, r, e, b, hid_W, hid_W_naive, out_W_naive, hid_W_trained,
                 out_W_trained, perf_train_prog, perf_test_prog, early_stop_cond, rnd,
                 correct, step, es_last, epi_log, stop_epi, ref_naive, n_updates,
                 ls_vars, env_vars>>

\* the call of test() on a trained network
Test ==
  /\ pc = "done"
  /\ perf_dict' = test_after_training(cfg, rng, classes, cfg.data_test, hid_W_trained,
                                      out_W_trained, out_W)
  /\ rng' = rng_after(rng, cfg.n_runs * test_draws(cfg.data_test.images, hid_W))
  /\ pc' = "tested"
  /\ UNCHANGED <<cfg, r, e, b, hid_W, out_W, hid_W_naive, out_W_naive, hid_W_trained,
                 out_W_trained, perf_train_prog, perf_test_prog, early_stop_cond, rnd,
                 correct, step, es_last, epi_log, stop_epi, ref_naive, n_updates,
                 ls_vars, env_vars>>

\* the output weights after an episode, recomputed for every classifier
out_W_after_episode_always(c, cls, rnd_images, rnd_labels, hW, oW) ==
  learn_out_proba(c, cls, rnd_images, rnd_labels, hW, oW)

\* the output weights after an episode: recomputed by _learn_out_proba when
\* the classifier is 'neural_prob'
out_W_after_episode(c, cls, rnd_images, rnd_labels, hW, oW) ==
  IF c.classifier = "neural_prob"
  THEN learn_out_proba(c, cls, rnd_images, rnd_labels, hW, oW)
  ELSE oW

\* end of an episode: the output weights of 'neural_prob', then
\* _assess_perf_progress(correct / n_images)
EpisodeEnd ==
  /\ pc = "epi_end"
  /\ LET new_out == out_W_after_episode(cfg, classes, rnd.images, rnd.labels, hid_W, out_W)
         perf_train == (correct * PerfOne) \div n_images
         col == perf_index(e)
     IN  /\ out_W' = new_out
         /\ perf_train_prog' =
              [perf_train_prog EXCEPT ![r + 1] =
                 SeqOf([k \in 1..n_epi_tot |-> IF k = col THEN perf_train ELSE @[k]], n_epi_tot)]
         /\ IF cfg.test_each_epi
            THEN /\ perf_test_prog' =
                      [perf_test_prog EXCEPT ![r + 1] =
                         SeqOf([k \in 1..n_epi_tot |->
                                  IF k = col
                                  THEN test_during_training(cfg, rng, classes, cfg.data_test,
                                                            hid_W, new_out)
                                  ELSE @[k]], n_epi_tot)]
                 /\ rng' = rng_after(rng, test_draws(cfg.data_test.images, hid_W))
            ELSE UNCHANGED <<perf_test_prog, rng>>
         /\ IF naive_at_epi_end(cfg, e)
            THEN /\ hid_W_naive' = [hid_W_naive EXCEPT ![r + 1] = hid_W]
                 /\ out_W_naive' = [out_W_naive EXCEPT ![r + 1] = new_out]
            ELSE UNCHANGED <<hid_W_naive, out_W_naive>>
         /\ ref_naive' = [ref_naive EXCEPT ![r + 1] =
                            IF e < cfg.n_epi_crit + cfg.n_epi_fine
                            THEN [set |-> TRUE, hid |-> hid_W, out |-> new_out] ELSE @]
  /\ pc' = "assess_stop"
  /\ UNCHANGED <<cfg, r, e, b, hid_W, hid_W_trained, out_W_trained,
                 early_stop_cond, rnd, correct, step, es_last, epi_log, stop_epi, n_updates,
                 ls_vars, env_vars, test_vars>>

\* where train() goes after the evaluator returned, with the value ignored
after_assess_ignored(ret, ep, n_tot) ==
  IF ep + 1 < n_tot THEN "epi_start" ELSE "run_end"

\* where train() goes after the evaluator returned: `break` leaves the
\* episode loop, otherwise the loop goes on while episodes are left
after_assess(ret, ep, n_tot) ==
  IF ret THEN "run_end" ELSE IF ep + 1 < n_tot THEN "epi_start" ELSE "run_end"

\* `if self._assess_early_stop(): break`, else the next episode
AssessEarlyStop ==
  /\ pc = "assess_stop"
  /\ LET res == assess_early_stop(cfg, e, perf_train_prog[r + 1],
                                  IF cfg.test_each_epi THEN perf_test_prog[r + 1] ELSE <<>>,
                                  n_out_neurons)
         nxt == after_assess(res.ret, e, n_epi_tot)
     IN  /\ es_last' = [called |-> TRUE, r |-> r, e |-> e, ret |-> res.ret, recs |-> res.recs]
         /\ early_stop_cond' = early_stop_cond \o res.recs
         /\ pc' = nxt
         /\ e' = IF nxt = "epi_start" THEN e + 1 ELSE e
         /\ stop_epi' = IF res.ret THEN [stop_epi EXCEPT ![r + 1] = e] ELSE stop_epi
  /\ UNCHANGED <<cfg, r, b, rng, hid_W, out_W, hid_W_naive, out_W_naive, hid_W_trained,
                 out_W_trained, perf_train_prog, perf_test_prog, rnd, correct, step,
                 epi_log, ref_naive, n_updates, ls_vars, env_vars, test_vars>>

\* after the episode loop: store the trained weights, go to the next run
RunEnd ==
  /\ pc = "run_end"
  /\ hid_W_trained' = [hid_W_trained EXCEPT ![r + 1] = hid_W]
  /\ out_W_trained' = [out_W_trained EXCEPT ![r + 1] = out_W]
  /\ r' = r + 1
  /\ pc' = IF r + 1 < cfg.n_runs THEN "run_start" ELSE "done"
  /\ UNCHANGED <<cfg, e, b, rng, hid_W, out_W, hid_W_naive, out_W_naive,
                 perf_train_prog, perf_test_prog, early_stop_cond, rnd, correct, step,
                 es_last, epi_log, stop_epi, ref_naive, n_updates, ls_vars, env_vars, test_vars>>

Next ==
  \/ TrainBegin
  \/ RunStart
  \/ EpisodeStart
  \/ Batch
  \/ EpisodeEnd
  \/ AssessEarlyStop
  \/ RunEnd

Spec == Init /\ [][Next]_vars

(***************************************************************************)
(* Claims about the training state machine                                 *)
(***************************************************************************)
weights_set == hid_W # <<>> /\ out_W # <<>>

\* C2: in every state reached during training, whatever the classifier and
\* the weight-initialization method, every entry of hid_W and of out_W is
\* strictly positive: after initialization, after every batch and after the
\* end-of-episode recomputation of out_W.
\* (weights are whole multiples of the floor: strictly positive is >= 1)
C2_WeightsPositive ==
  weights_set => /\ AllAtLeast(hid_W, 1)
                 /\ AllAtLeast(out_W, 1)

\* the period of episode ep, from ep and the four configured counts
PhaseOf(c, ep) ==
  IF ep < c.n_epi_crit THEN "critical"
  ELSE IF ep < c.n_epi_crit + c.n_epi_fine THEN "fine"
  ELSE IF ep < c.n_epi_crit + c.n_epi_fine + c.n_epi_dopa THEN "dopamine"
  ELSE "post"

PhaseCount(c, ph) ==
  IF ph = "critical" THEN c.n_epi_crit
  ELSE IF ph = "fine" THEN c.n_epi_fine
  ELSE IF ph = "dopamine" THEN c.n_epi_dopa
  ELSE c.n_epi_post

batch_done == step.e >= 0

\* the routing of a dopamine episode: the hidden layer gets the table
\* look-up, the gain of the output layer is constant
routing_dopamine ==
  /\ step.dopa_hid = compute_dopa(step.predicted_reward_hid, step.reward_hid,
                                  cfg.dopa_values)
  /\ \/ step.dopa_out = Zeros(cfg.batch_size)
     \/ step.dopa_out = Ones(cfg.batch_size)

\* the routing of the other episodes: the output layer gets the table
\* look-up, the gain of the hidden layer is 1
routing_output ==
  /\ step.dopa_out = compute_dopa(step.predicted_reward_out, step.reward_out,
                                  dopa_values_out(cfg))
  /\ step.dopa_hid = Ones(cfg.batch_size)

C4_PhaseOrder ==
  /\ batch_done =>
       LET ph == PhaseOf(cfg, step.e)
       IN  /\ (step.lr_hid = 0) <=> (ph \in {"fine", "post"})
           /\ step.x_hid <=> (cfg.exploration /\ ph = "dopamine")
           /\ (step.branch = "hid") <=> (ph = "dopamine")
  /\ \A k \in 1..Len(epi_log) : epi_log[k] = k - 1
  /\ (pc = "run_end" /\ stop_epi[r + 1] = -1) =>
       /\ Len(epi_log) = n_epi_tot
       /\ \A ph \in {"critical", "fine", "dopamine", "post"} :
            Cardinality({k \in 1..Len(epi_log) : PhaseOf(cfg, epi_log[k]) = ph})
              = PhaseCount(cfg, ph)

\* a run with one episode of each period has run to its end
C4_Witness ==
  /\ pc = "run_end"
  /\ stop_epi[r + 1] = -1
  /\ cfg.n_epi_crit = 1 /\ cfg.n_epi_fine = 1 /\ cfg.n_epi_dopa = 1 /\ cfg.n_epi_post = 1
  /\ epi_log = <<0, 1, 2, 3>>
  /\ step.e = 3 /\ step.lr_hid = 0

\* C7: when the evaluator returns true at episode e of run r, exactly one
\* record is appended (none when it returns false), the run goes straight to
\* its end with no further episode, batch or weight update, and training
\* goes on with run r + 1 if there is one.
C7_StopHaltsRun ==
  [][ /\ pc = "assess_stop" =>
           /\ Len(early_stop_cond') = Len(early_stop_cond) + (IF es_last'.ret THEN 1 ELSE 0)
           /\ es_last'.ret =>
                /\ pc' = "run_end" /\ r' = r /\ e' = e
                /\ early_stop_cond'[Len(early_stop_cond')].epi = e
      /\ pc = "run_end" =>
           /\ r' = r + 1
           /\ hid_W' = hid_W /\ out_W' = out_W
           /\ n_updates' = n_updates /\ epi_log' = epi_log
           /\ hid_W_trained'[r + 1] = hid_W /\ out_W_trained'[r + 1] = out_W
           /\ pc' = IF r + 1 < cfg.n_runs THEN "run_start" ELSE "done"
    ]_vars

\* the first run was stopped with episodes left and the second one is
\* training
C7_Witness ==
  /\ pc = "batch"
  /\ r = 1
  /\ stop_epi[1] >= 0
  /\ stop_epi[1] + 1 < n_epi_tot
  /\ Len(early_stop_cond) = 1

\* the last episode run by finished run i (index i), -1 when it ran none
last_epi(i) == IF stop_epi[i] >= 0 THEN stop_epi[i] ELSE n_epi_tot - 1

finished(i) == i <= r /\ pc \notin {"constructed"}

\* C9 as stated (for runs of at least one episode): at the end of every
\* run, stopped early or not, the naive
\* snapshot equals the weights as they were before the first dopamine
\* update would occur: the initial weights when there is no critical or fine
\* episode, otherwise the weights at the end of the last such episode.
C9_NaiveAtRunEnd ==
  \A i \in 1..Len(hid_W_naive) :
    (finished(i) /\ n_epi_tot > 0) =>
      /\ ref_naive[i].set
      /\ hid_W_naive[i] = ref_naive[i].hid
      /\ out_W_naive[i] = ref_naive[i].out

\* C9 amended: the snapshot is as stated at the end of every run that ran
\* to the end of episode n_epi_crit + n_epi_fine - 1 (that started episode 0
\* when there is no critical or fine episode); in a run stopped before, or
\* without episodes, it is the zero matrix it was allocated as; no later
\* update of that or of another run changes it.
C9_NaiveIfBoundaryReached ==
  \A i \in 1..Len(hid_W_naive) :
    finished(i) =>
      IF n_epi_tot > 0 /\ last_epi(i) >= cfg.n_epi_crit + cfg.n_epi_fine - 1
      THEN /\ ref_naive[i].set
           /\ hid_W_naive[i] = ref_naive[i].hid
           /\ out_W_naive[i] = ref_naive[i].out
      ELSE /\ hid_W_naive[i] = ZeroMat(n_inp_neurons, cfg.n_hid_neurons)
           /\ out_W_naive[i] = ZeroMat(cfg.n_hid_neurons, n_out_neurons)

\* the first run went through a critical or fine episode and then changed
\* its weights in later episodes; the second run has changed the live ones
C9_Witness ==
  /\ pc = "done"
  /\ cfg.n_runs = 2
  /\ cfg.n_epi_crit + cfg.n_epi_fine > 0
  /\ last_epi(1) > cfg.n_epi_crit + cfg.n_epi_fine - 1
  /\ hid_W_naive[1] # hid_W_trained[1]
  /\ hid_W_naive[1] # ZeroMat(n_inp_neurons, cfg.n_hid_neurons)
  /\ hid_W_naive[1] # hid_W

\* episode k - 1 of run i (index i) has been recorded
recorded(i, k) ==
  \/ finished(i) /\ k - 1 <= last_epi(i)
  \/ /\ i = r + 1
     /\ \/ pc \in {"epi_start", "batch", "epi_end"} /\ k - 1 < e
        \/ pc \in {"assess_stop", "run_end"} /\ k - 1 <= e /\ n_epi_tot > 0

\* C10: entry (r, e) of the training trace is written at the end of episode
\* e of run r, in increasing order of e, and never modified afterwards; the
\* entry of an episode that was not run holds the marker -1.
C10_TraceAppendOnly ==
  /\ [](\A i \in 1..Len(perf_train_prog) : \A k \in 1..Len(perf_train_prog[i]) :
          IF recorded(i, k)
          THEN perf_train_prog[i][k] >= 0 /\ perf_train_prog[i][k] <= PerfOne
          ELSE perf_train_prog[i][k] = PerfUnset)
  /\ [][\A i \in 1..Len(perf_train_prog) : \A k \in 1..Len(perf_train_prog[i]) :
          perf_train_prog[i][k] # PerfUnset =>
            perf_train_prog'[i][k] = perf_train_prog[i][k]]_vars

\* the first run was stopped early: its later entries still hold the marker
\* while the second run has written entries of its own
C10_Witness ==
  /\ pc = "done"
  /\ cfg.n_runs = 2
  /\ stop_epi[1] >= 0 /\ stop_epi[1] + 1 < n_epi_tot
  /\ perf_train_prog[1][stop_epi[1] + 1] # PerfUnset
  /\ perf_train_prog[1][n_epi_tot] = PerfUnset
  /\ perf_train_prog[2][1] # PerfUnset

(***************************************************************************)
(* Specification SpecES: the early-stop evaluator on performance traces    *)
(*                                                                         *)
(* train() has reached the end of episode e of its single run with a given *)
(* trace and calls the evaluator.  Only traces on which the evaluator      *)
(* returned false at every earlier episode are drawn.  After a stop,       *)
(* train() may be called again on the same network: the traces are         *)
(* allocated anew, the early-stop log is kept.                             *)
(***************************************************************************)
MaxTrainCalls == 2   \* calls of train() on one network

\* episodes at which the evaluator is looked at
ESEpis == {0, 1, 2, 5, 10, 11, 20}
ESLen  == 22   \* n_epi_tot of the runs of SpecES

ESLevels == {5000, 6000, 6001, PerfOne}

\* performance of episode i under each shape of trace
es_step(a, b0, k, i) == IF i < k THEN a ELSE b0
es_alt(a, b0, i)     == IF i % 2 = 0 THEN a ELSE b0
es_ramp(a, d, b0, ep, i) == IF i < ep THEN a - d * i ELSE b0

\* the row of the trace after episode ep was recorded
es_row(ep, f) == SeqOf([k \in 1..ESLen |-> IF k <= ep + 1 THEN f[k - 1] ELSE PerfUnset], ESLen)

ESShapes(ep) ==
  { [i \in 0..ep |-> es_step(a, b0, k, i)] :
      a \in ESLevels, b0 \in ESLevels, k \in {0, 1, ep} }
  \cup { [i \in 0..ep |-> es_alt(6000, b0, i)] : b0 \in {6003, PerfOne} }
  \cup { [i \in 0..ep |-> es_ramp(9000, 100, b0, ep, i)] : b0 \in ESLevels }

ESFlags ==
  { [early_stop |-> TRUE, test_each_epi |-> FALSE],
    [early_stop |-> TRUE, test_each_epi |-> TRUE],
    [early_stop |-> FALSE, test_each_epi |-> FALSE] }

\* the test trace, when there is one: the training trace itself or a flat one
ESTests(fl, ep, train) ==
  IF fl.test_each_epi THEN {train, es_row(ep, [i \in 0..ep |-> 7000])} ELSE {<<>>}

\* the evaluator returned false at every episode before ep
es_not_stopped_before(fl, ep, train, test) ==
  \A e0 \in 0..(ep - 1) : ~assess_early_stop(fl, e0, train, test, 2).ret

ESInputs ==
  { in \in UNION { UNION { { [flags |-> fl, e |-> ep, train |-> es_row(ep, f), test |-> tt] :
                               tt \in ESTests(fl, ep, es_row(ep, f)) } :
                             f \in ESShapes(ep) } :
                     fl \in ESFlags, ep \in ESEpis } :
      es_not_stopped_before(in.flags, in.e, in.train, in.test) }

ESConfig(fl) ==
  WithFields(BaseConfig,
    [n_runs |-> 1, n_epi_crit |-> ESLen, n_epi_fine |-> 0, n_epi_dopa |-> 0,
     n_epi_post |-> 0, classifier |-> "neural_prob", early_stop |-> fl.early_stop,
     weight_init |-> "random", seed |-> 0, data |-> DataLit,
     test_each_epi |-> fl.test_each_epi])

\* the state of train() at the end of episode in.e with the traces of `in`
es_at_episode_end(in) ==
  /\ pc' = "assess_stop"
  /\ r' = 0
  /\ e' = in.e
  /\ perf_train_prog' = << in.train >>
  /\ perf_test_prog' = IF in.flags.test_each_epi THEN << in.test >> ELSE <<>>
  /\ stop_epi' = << -1 >>

ES_Init ==
  \E in \in ESInputs :
    /\ cfg = ESConfig(in.flags)
    /\ pc = "assess_stop"
    /\ r = 0 /\ e = in.e /\ b = 0
    /\ rng = rng_seed(cfg.seed)
    /\ hid_W = <<>> /\ out_W = <<>>
    /\ hid_W_naive = <<>> /\ out_W_naive = <<>>
    /\ hid_W_trained = <<>> /\ out_W_trained = <<>>
    /\ perf_train_prog = << in.train >>
    /\ perf_test_prog = IF in.flags.test_each_epi THEN << in.test >> ELSE <<>>
    /\ early_stop_cond = <<>>
    /\ rnd = [images |-> <<>>, labels |-> <<>>]
    /\ correct = 0
    /\ step = NoStep
    /\ es_last = NoCall
    /\ epi_log = <<>>
    /\ stop_epi = << -1 >>
    /\ ref_naive = <<>>
    /\ n_updates = 0
    /\ err = "none" /\ outdir = TRUE /\ saved = NoSaved
    /\ perf_dict = NoPerf
    /\ ls_idle

\* train() is called again after a stop and reaches the end of an episode
ES_Retrain ==
  /\ pc = "run_end"
  /\ es_last.called /\ es_last.ret
  /\ Len(early_stop_cond) < MaxTrainCalls
  /\ \E in \in ESInputs :
       /\ in.flags.early_stop = cfg.early_stop
       /\ in.flags.test_each_epi = cfg.test_each_epi
       /\ es_at_episode_end(in)
  /\ es_last' = NoCall
  /\ UNCHANGED <<cfg, b, rng, hid_W, out_W, hid_W_naive, out_W_naive, hid_W_trained,
                 out_W_trained, early_stop_cond, rnd, correct, step, epi_log, ref_naive,
                 n_updates, ls_vars, env_vars, test_vars>>

ES_Next == AssessEarlyStop \/ ES_Retrain

SpecES == ES_Init /\ [][ES_Next]_vars

\* the rows the last call of the evaluator looked at
es_train == perf_train_prog[es_last.r + 1]
es_test  == IF cfg.test_each_epi THEN perf_test_prog[es_last.r + 1] ELSE <<>>

es_fired(cond) ==
  /\ es_last.ret
  /\ Len(es_last.recs) = 1
  /\ es_last.recs[1].by = cond

\* C5: with early stopping on, whenever the last two recorded episodes
\* (e - 1 and e, for any e >= 1) are both 1.0 in the training trace, and in
\* the test trace when there is one, the evaluator returns true with a
\* 'max_perf' record, before any other condition is looked at.
C5_CeilingFromTwoEpisodes ==
  (es_last.called /\ cfg.early_stop
     /\ cond_max_perf_from_1(cfg, es_last.e, es_train, es_test)) =>
    /\ es_fired("ceiling")
    /\ es_last.recs[1].epi_cond = "max_perf"
    /\ es_last.recs[1].epi = es_last.e

\* C6: with early stopping on, no earlier condition fired and at least
\* `window` episodes recorded, the plateau condition is true exactly when
\* max - min of the trace over the last `window` episodes, the one just
\* recorded included, is within the threshold (10 / 0.0001 and 20 / 0.0005).
C6_PlateauWindowEndsNow ==
  (es_last.called /\ cfg.early_stop
     /\ ~cond_max_perf(cfg, es_last.e, es_train, es_test)
     /\ ~cond_min_perf(cfg, es_last.e, es_train, es_test, n_out_neurons)
     /\ ~cond_decreasing(cfg, es_last.e, es_train, es_test)
     /\ es_last.e + 1 >= plateau_conds[1].n_epi) =>
    (es_fired("plateau") <=>
       \E i \in 1..Len(plateau_conds) :
         cond_plateau_incl(cfg, es_last.e, es_train, es_test, plateau_conds[i]))

\* C8: every record of the early-stop log carries the episode of the stop
\* and an identifier of the condition that fired: two records appended by
\* different conditions never carry the same identifier.
C8_IdentifierPerCondition ==
  \A i \in 1..Len(early_stop_cond) : \A j \in 1..Len(early_stop_cond) :
    early_stop_cond[i].by # early_stop_cond[j].by =>
      early_stop_cond[i].epi_cond # early_stop_cond[j].epi_cond

(***************************************************************************)
(* Specification SpecLS: any sequence of learning-rule updates             *)
(***************************************************************************)
LSPre  == 2   \* neurons of the layer before the weights
LSPost == 2   \* neurons of the layer after the weights
LSPreInputs  == [1..1 -> [1..LSPre -> 0..MaxAct]]
LSPostInputs == [1..1 -> [1..LSPost -> 0..MaxAct]]
LSDopas  == [1..1 -> (-MaxDopa)..MaxDopa] \cup {<<>>}

LS_Init ==
  /\ cfg = CHOOSE c \in Configs : TRUE
  /\ Constructed
  /\ saved = NoSaved
  /\ ls_W \in [1..LSPre -> [1..LSPost -> (-MaxW0)..MaxW0]]
  /\ ls_n = 0
  /\ ls_err = "none"

\* one call of _learning_step on the matrix the previous call returned
LS_Step ==
  /\ ls_n < MaxLSSteps
  /\ ls_err = "none"
  /\ \E pre \in LSPreInputs, post \in LSPostInputs, lr \in 0..MaxLr,
        dopa \in LSDopas, lim \in BOOLEAN :
       LET res == learning_step(pre, post, ls_W, lr, dopa, lim)
       IN  /\ ls_W' = res.W
           /\ ls_err' = res.err
           /\ ls_n' = IF res.err = "none" THEN ls_n + 1 ELSE ls_n
  /\ UNCHANGED <<train_vars, env_vars, test_vars>>

\* one update of the two RLnetwork weight matrices' rule (add, then clip) on
\* the matrix the previous call returned; disinhib is always an array there
LS_StepRL ==
  /\ ls_n < MaxLSSteps
  /\ ls_err = "none"
  /\ \E pre \in LSPreInputs, post \in LSPostInputs, lr \in 0..MaxLr,
        disinhib \in LSDopas \ {<<>>} :
       ls_W' = RLnetwork_update(pre, post, ls_W, lr, disinhib)
  /\ ls_n' = ls_n + 1
  /\ UNCHANGED <<ls_err, train_vars, env_vars, test_vars>>

LS_Next == LS_Step \/ LS_StepRL

SpecLS == LS_Init /\ [][LS_Next]_vars

\* C1: every entry of a matrix returned by a learning-rule update is at
\* least the positive floor, whatever the matrix, the learning rate, the
\* activations and the dopamine values (negative ones included) were.
C1_FloorAfterUpdate ==
  ls_n > 0 => AllAtLeast(ls_W, W_FLOOR)

\* an update with negative dopamine has been applied and clamped an entry
C1_Witness ==
  /\ ls_n = MaxLSSteps
  /\ ls_err = "none"
  /\ \E i \in 1..LSPre : \E j \in 1..LSPost : ls_W[i][j] = W_FLOOR
  /\ \E i \in 1..LSPre : \E j \in 1..LSPost : ls_W[i][j] > W_FLOOR

(***************************************************************************)
(* Construction and the options of Network.__init__                        *)
(***************************************************************************)
\* two identical images: every hidden neuron gets the same activation when
\* the weights are initialized from the input statistics
DataSame == [images |-> << <<2, 2, 2>>, <<2, 2, 2>> >>, labels |-> <<0, 1>>]

\* Network._check_parameters without the test of pdf_method
check_parameters_no_pdf(c) ==
  IF c.classifier \notin {"neural_prob", "neural_DA", "bayesian"} THEN "ValueError"
  ELSE IF c.protocol \notin {"digit", "gabor", "toy_data"} THEN "ValueError"
  ELSE "none"

\* Network._check_parameters: the kind of the error raised, or "none"
check_parameters(c) ==
  IF c.classifier \notin {"neural_prob", "neural_DA", "bayesian"} THEN "ValueError"
  ELSE IF c.protocol \notin {"digit", "gabor", "toy_data"} THEN "ValueError"
  ELSE IF c.pdf_method \notin {"fit", "subsample", "full"} THEN "ValueError"
  ELSE "none"

\* ex.checkdir(name, protocol, overwrite=True): the output directory of the
\* network exists afterwards, whether or not it existed before
checkdir(existed) == TRUE

\* the last lines of Network.__init__: np.random.seed(self.seed) (a seed of
\* None seeds from the clock), _check_parameters(), then ex.checkdir unless
\* the network is built by pypet
Construct ==
  /\ pc = "new"
  /\ IF check_parameters(cfg) # "none"
     THEN /\ pc' = "error"
          /\ err' = check_parameters(cfg)
          /\ outdir' = outdir
     ELSE /\ pc' = "constructed"
          /\ err' = err
          /\ outdir' = IF cfg.pypet THEN outdir ELSE checkdir(outdir)
  /\ rng' \in (IF cfg.seed = NoSeed THEN 0..(RngRange - 1) ELSE {rng_seed(cfg.seed)})
  /\ UNCHANGED <<cfg, r, e, b, hid_W, out_W, hid_W_naive, out_W_naive, hid_W_trained,
                 out_W_trained, perf_train_prog, perf_test_prog, early_stop_cond, rnd,
                 correct, step, es_last, epi_log, stop_epi, ref_naive, n_updates,
                 ls_vars, saved, test_vars>>

\* networks pickled by an earlier training: three pixels, two hidden neurons,
\* two classes, one or two runs; one with three hidden neurons; one whose
\* output matrix has three columns
SavedNets ==
  { [exists |-> TRUE, name |-> "pretrain", n_runs |-> 1,
     hid_W_trained |-> << << <<5, 1>>, <<1, 5>>, <<2, 2>> >> >>,
     out_W_trained |-> << << <<3, 1>>, <<1, 3>> >> >>],
    [exists |-> TRUE, name |-> "pretrain", n_runs |-> 2,
     hid_W_trained |-> << << <<5, 1>>, <<1, 5>>, <<2, 2>> >>, << <<1, 6>>, <<6, 1>>, <<3, 3>> >> >>,
     out_W_trained |-> << << <<3, 1>>, <<1, 3>> >>, << <<1, 2>>, <<2, 1>> >> >>],
    [exists |-> TRUE, name |-> "pretrain", n_runs |-> 1,
     hid_W_trained |-> << << <<5, 1, 1>>, <<1, 5, 1>>, <<2, 2, 1>> >> >>,
     out_W_trained |-> << << <<3, 1>>, <<1, 3>>, <<1, 1>> >> >>],
    [exists |-> TRUE, name |-> "pretrain", n_runs |-> 1,
     hid_W_trained |-> << << <<5, 1>>, <<1, 5>>, <<2, 2>> >> >>,
     out_W_trained |-> << << <<3, 1, 1>>, <<1, 3, 1>> >> >>],
    NoSaved }

\* the dopamine table with every value 0
DopaZero == [dHigh |-> 0, dMid |-> 0, dNeut |-> 0, dLow |-> 0]

\* the options a configuration changes with respect to BaseConfig
Options ==
  { [weight_init |-> "random"],
    [weight_init |-> "input"],
    [weight_init |-> "random", seed |-> NoSeed],
    [weight_init |-> "random", dopa_values |-> DopaZero, dopa_values_out |-> DopaZero,
     train_out_dopa |-> TRUE],
    [weight_init |-> "random", dopa_values |-> DopaZero, dopa_values_out |-> DopaZero,
     dopa_out_same |-> FALSE],
    [weight_init |-> "random", epsilon_xplr |-> RngRange, noise_xplr_hid |-> 0,
     noise_xplr_out |-> 0],
    [weight_init |-> "input", noise_activ |-> -1, noise_xplr_hid |-> -1,
     noise_xplr_out |-> -1],
    [weight_init |-> "random", train_out_dopa |-> TRUE],
    [weight_init |-> "random", lim_weights |-> TRUE],
    [weight_init |-> "random", exploration |-> FALSE],
    [weight_init |-> "random", classifier |-> "bayesian"],
    [weight_init |-> "random", classifier |-> "bayesian", batch_size |-> 4],
    [weight_init |-> "random", classifier |-> "svm"],
    [weight_init |-> "random", protocol |-> "mnist"],
    [weight_init |-> "random", pdf_method |-> "kde", pypet |-> TRUE],
    [weight_init |-> "random", protocol |-> "toy_data", pdf_method |-> "full",
     pypet |-> TRUE],
    [weight_init |-> "file", init_file |-> "pretrain"],
    [weight_init |-> "file", init_file |-> "pretrain", epsilon_xplr |-> RngRange,
     noise_xplr_hid |-> 0, noise_xplr_out |-> 0],
    [weight_init |-> "file", init_file |-> ""] }
  \cup { [weight_init |-> "random", classifier |-> cl, protocol |-> pt, pdf_method |-> pm] :
            cl \in {"neural_prob", "neural_DA", "bayesian"},
            pt \in {"digit", "gabor", "toy_data"}, pm \in {"fit", "subsample", "full"} }

OptConfigs ==
  { WithFields(WithFields(BaseConfig,
      [n_runs |-> nr, n_epi_crit |-> nc, n_epi_fine |-> 0, n_epi_dopa |-> nd,
       n_epi_post |-> np, classifier |-> cl, early_stop |-> FALSE, seed |-> 0,
       data |-> dt]), opt) :
      nr \in 1..MaxRuns, nc \in 0..MaxEpi, nd \in 0..MaxEpi, np \in 0..MaxEpi,
      cl \in {"neural_prob", "neural_DA"}, dt \in {DataLit, DataSame}, opt \in Options }

\* before Network.__init__ has run: the arguments are chosen, the output
\* directory may exist from an earlier network, a network may be pickled
OptInit ==
  /\ cfg \in OptConfigs
  /\ saved \in (IF cfg.weight_init = "file" THEN SavedNets ELSE {NoSaved})
  /\ pc = "new"
  /\ r = 0 /\ e = 0 /\ b = 0
  /\ rng = 0
  /\ hid_W = <<>> /\ out_W = <<>>
  /\ hid_W_naive = <<>> /\ out_W_naive = <<>>
  /\ hid_W_trained = <<>> /\ out_W_trained = <<>>
  /\ perf_train_prog = <<>> /\ perf_test_prog = <<>>
  /\ early_stop_cond = <<>>
  /\ rnd = [images |-> <<>>, labels |-> <<>>]
  /\ correct = 0
  /\ step = NoStep
  /\ es_last = NoCall
  /\ epi_log = <<>>
  /\ stop_epi = <<>>
  /\ ref_naive = <<>>
  /\ n_updates = 0
  /\ err = "none"
  /\ outdir = FALSE
  /\ perf_dict = NoPerf
  /\ ls_idle

OptNext == Construct \/ Next

SpecOpt == OptInit /\ [][OptNext]_vars

(***************************************************************************)
(* Claims about construction and the options                               *)
(***************************************************************************)
\* a step of the head of the loop over runs
run_started == pc = "run_start" /\ pc' # "run_start"

\* what _init_weights installs in run `run` when the generator was seeded
\* with seed + run just before
seeded_weights(c, run) == init_weights(c, run, rng_seed(c.seed + run), images, n_inp_neurons, c.n_hid_neurons, n_out_neurons, saved, hid_W, out_W)

\* C11: at the start of each run r the generator is re-seeded with seed + r
\* before the weights are initialized, for every value of the seed parameter
\* the constructor accepts, its default None included: the head of the run
\* raises no TypeError, and the weights and the generator it leaves are those
\* of a generator seeded with seed + r, whatever the generator held before.
C11_ReseededEveryRun ==
  [][run_started =>
       /\ err' # "TypeError"
       /\ hid_W' = seeded_weights(cfg, r).hid_W
       /\ out_W' = seeded_weights(cfg, r).out_W
       /\ rng' = seeded_weights(cfg, r).rng]_vars

\* a step that completed a mini-batch
batch_completed == pc = "batch" /\ b' = b + 1

\* C12: with the dopamine values dHigh = dMid = dNeut = dLow = 0, in every
\* batch of every dopamine-phase episode the learning step leaves the weight
\* matrix of the gated (hidden) layer unchanged, while the ungated (output)
\* layer still gets its update with a non-zero gain for every sample.
C12_ZeroTableFreezesHiddenOnly ==
  [][(batch_completed /\ in_dopa_period(cfg, e) /\ cfg.dopa_values = DopaZero) =>
       /\ hid_W' = hid_W
       /\ \A s \in 1..cfg.batch_size : step'.dopa_out[s] # 0]_vars

\* the last batch ran outside the dopamine period: in a critical, fine or
\* post episode
batch_outside_dopa == batch_done /\ ~in_dopa_period(cfg, step.e)

\* C13 as stated: in every episode outside the dopamine phase exploration is
\* disabled for all layers, for every classifier and even with the
\* exploration option on: no exploration noise goes into the hidden or the
\* output activations, and explore_hid and explore_out equal greedy.
C13_NoExplorationOutsideDopa ==
  batch_outside_dopa =>
    /\ ~step.x_hid /\ ~step.x_out
    /\ step.same_hid /\ step.same_out
    /\ step.explore_hid = step.greedy
    /\ train_class_layer(cfg) => step.explore_out = step.greedy

\* C13 as the code has it: outside the dopamine phase the hidden layer never
\* explores (no noise, hid_neurons_explore and explore_hid equal the greedy
\* ones) for every classifier; the output layer of 'neural_DA' does explore
\* there whenever the exploration option is on, and only then.
C13_HiddenNeverOutputWhenTrained ==
  batch_outside_dopa =>
    /\ ~step.x_hid
    /\ step.same_hid
    /\ step.explore_hid = step.greedy
    /\ step.x_out <=> (train_class_layer(cfg) /\ cfg.exploration)
    /\ ~step.x_out => step.same_out
    /\ (~step.x_out /\ train_class_layer(cfg)) => step.explore_out = step.greedy

\* a batch outside the dopamine phase in which the output noise changed the
\* choice of an explorative sample while the hidden layer stayed greedy
C13_Witness ==
  /\ batch_outside_dopa
  /\ cfg.classifier = "neural_DA"
  /\ step.x_out /\ ~step.same_out
  /\ step.explore_out # step.greedy
  /\ step.same_hid /\ step.explore_hid = step.greedy

\* exploration on, every sample explorative, both exploration coefficients 0
zero_noise_exploration(c) ==
  /\ c.exploration
  /\ c.epsilon_xplr = RngRange
  /\ c.noise_xplr_hid = 0
  /\ c.noise_xplr_out = 0

\* C14: with exploration on, epsilon_xplr = 1.0 and the exploration noise
\* coefficients configured as 0, the explorative choices equal the greedy
\* choice for every sample of every batch in every phase, and the noise added
\* to the hidden and to the output activations is exactly zero.
C14_ZeroNoiseIsGreedy ==
  (batch_done /\ zero_noise_exploration(cfg)) =>
    /\ \A s \in 1..cfg.batch_size : step.explorative[s]
    /\ step.explore_hid = step.greedy
    /\ train_class_layer(cfg) => step.explore_out = step.greedy
    /\ step.xplr_hid = ZeroMat(cfg.batch_size, cfg.n_hid_neurons)
    /\ train_class_layer(cfg) => step.xplr_out = ZeroMat(cfg.batch_size, n_out_neurons)

\* C15: the standard deviation handed to every Gaussian draw of a batch (the
\* activation noise, the exploration noise of the hidden layer, the
\* exploration noise of the output layer) is strictly positive, for every
\* configuration and every batch: also when a coefficient is configured as 0
\* or negative and when all activations of the batch are identical.
C15_StdStrictlyPositive ==
  batch_done => (step.stds.activ /\ step.stds.hid /\ step.stds.out)

\* C16: with the hard-cap mode (lim_weights) on, every learning step of every
\* batch completes without error (and then leaves unchanged exactly the
\* columns whose sum or minimum after the update would break the bounds).
C16_HardCapStepCompletes ==
  [][(pc = "batch" /\ cfg.lim_weights) => (err' = "none" /\ pc' # "error")]_vars

\* the enumerated options all have one of their documented values
legal_options(c) ==
  /\ c.classifier \in {"neural_prob", "neural_DA", "bayesian"}
  /\ c.protocol \in {"digit", "gabor", "toy_data"}
  /\ c.pdf_method \in {"fit", "subsample", "full"}

\* nothing of train() has run: no array of the training call exists and no
\* weight matrix was initialized
nothing_trained ==
  /\ hid_W = <<>> /\ out_W = <<>>
  /\ hid_W_trained = <<>> /\ out_W_trained = <<>>
  /\ perf_train_prog = <<>> /\ stop_epi = <<>>

perf_written ==
  \E i \in 1..Len(perf_train_prog) : \E k \in 1..Len(perf_train_prog[i]) :
    perf_train_prog[i][k] # PerfUnset

\* a trained snapshot was stored for some run
trained_stored ==
  \E i \in 1..Len(hid_W_trained) :
    \/ hid_W_trained[i] # ZeroMat(n_inp_neurons, cfg.n_hid_neurons)
    \/ out_W_trained[i] # ZeroMat(cfg.n_hid_neurons, n_out_neurons)

\* C18: a network configured with the 'bayesian' classifier is rejected with
\* the unsupported-mode error immediately: train() never completes, the
\* only error is NotImplementedError, no weight update is ever applied, no
\* performance-trace entry is written and no trained snapshot is stored.
C18_BayesianRejected ==
  cfg.classifier = "bayesian" =>
    /\ pc # "done"
    /\ pc = "error" => err = "NotImplementedError"
    /\ n_updates = 0
    /\ ~perf_written
    /\ ~trained_stored

\* the run initializes its weights from the network pickled under init_file
loads_from_file ==
  /\ cfg.weight_init = "file" /\ cfg.init_file # ""
  /\ saved.exists /\ saved.name = cfg.init_file

\* the matrices of the saved network that run i of this network loads
saved_hid(i) == saved.hid_W_trained[(i % saved.n_runs) + 1]
saved_out(i) == saved.out_W_trained[(i % saved.n_runs) + 1]

hid_shape_differs(i) == shape(saved_hid(i)) # <<n_inp_neurons, cfg.n_hid_neurons>>
out_shape_differs(i) == shape(saved_out(i)) # <<cfg.n_hid_neurons, n_out_neurons>>

\* C19: when the weights are initialized from a saved network and the shape
\* of either saved matrix differs from (n_inp, n_hid) for the hidden or
\* (n_hid, n_out) for the output matrix, an error is raised and hid_W and
\* out_W are left exactly as they were: neither matrix is replaced, not even
\* the one whose shape matched.
C19_ShapeMismatchLeavesWeights ==
  [][(run_started /\ loads_from_file /\ (hid_shape_differs(r) \/ out_shape_differs(r))) =>
       /\ pc' = "error" /\ err' = "ValueError"
       /\ hid_W' = hid_W
       /\ out_W' = out_W]_vars

\* the load failed on the output matrix alone: the hidden matrix of the saved
\* network had the right shape and was not installed
C19_Witness ==
  /\ pc = "error" /\ err = "ValueError"
  /\ loads_from_file
  /\ ~hid_shape_differs(r) /\ out_shape_differs(r)
  /\ hid_W # saved_hid(r) /\ out_W # saved_out(r)

DataTest == [images |-> << <<4, 2, 2>>, <<2, 4, 2>>, <<2, 4, 2>> >>, labels |-> <<1, 0, 0>>]

\* three images, for mini-batches of two: one image is left over
DataOdd == [images |-> << <<4, 2, 2>>, <<2, 4, 2>>, <<4, 2, 2>> >>, labels |-> <<0, 1, 0>>]

\* the options a configuration of this part changes with respect to BaseConfig
NetOptions ==
  { [weight_init |-> "random", data |-> DataLit],
    [weight_init |-> "random", data |-> DataLit, dopa_out_same |-> FALSE],
    [weight_init |-> "random", data |-> DataLit, dopa_out_same |-> FALSE,
     compare_output |-> TRUE],
    [weight_init |-> "input", data |-> DataDark],
    [weight_init |-> "random", data |-> DataOdd, batch_size |-> 2],
    [weight_init |-> "random", data |-> DataLit, batch_size |-> 2],
    [weight_init |-> "random", data |-> DataLit, batch_size |-> 4],
    [weight_init |-> "random", data |-> DataLit, init_file |-> "NO_INIT"],
    [weight_init |-> "input", data |-> DataLit, init_file |-> "NO_INIT"],
    [weight_init |-> "file", data |-> DataLit, init_file |-> "NO_INIT"],
    [weight_init |-> "naive", data |-> DataLit, init_file |-> "NO_INIT"],
    [weight_init |-> "random", data |-> DataLit, lr_out |-> 2],
    [weight_init |-> "random", data |-> DataLit, batch_size |-> 2, t_out |-> 4],
    [weight_init |-> "random", data |-> DataLit, test_each_epi |-> TRUE],
    [weight_init |-> "input", data |-> DataLit, test_each_epi |-> TRUE, data_test |-> DataTest],
    [weight_init |-> "input", data |-> DataLit, data_test |-> DataTest] }

NetConfigs ==
  { WithFields(WithFields(BaseConfig,
      [n_runs |-> nr, n_epi_crit |-> nc, n_epi_fine |-> nf, n_epi_dopa |-> nd,
       n_epi_post |-> np, classifier |-> cl, early_stop |-> es, seed |-> 0]), opt) :
      nr \in 1..MaxRuns, nc \in 0..MaxEpi, nf \in 0..MaxEpi, nd \in 0..MaxEpi,
      np \in 0..MaxEpi, cl \in {"neural_prob", "neural_DA"}, es \in BOOLEAN,
      opt \in NetOptions }

\* before Network.__init__ has run; no network is pickled under output/NO_INIT
NetInit ==
  /\ cfg \in NetConfigs
  /\ saved = NoSaved
  /\ pc = "new"
  /\ r = 0 /\ e = 0 /\ b = 0
  /\ rng = 0
  /\ hid_W = <<>> /\ out_W = <<>>
  /\ hid_W_naive = <<>> /\ out_W_naive = <<>>
  /\ hid_W_trained = <<>> /\ out_W_trained = <<>>
  /\ perf_train_prog = <<>> /\ perf_test_prog = <<>>
  /\ early_stop_cond = <<>>
  /\ rnd = [images |-> <<>>, labels |-> <<>>]
  /\ correct = 0
  /\ step = NoStep
  /\ es_last = NoCall
  /\ epi_log = <<>>
  /\ stop_epi = <<>>
  /\ ref_naive = <<>>
  /\ n_updates = 0
  /\ err = "none"
  /\ outdir = FALSE
  /\ perf_dict = NoPerf
  /\ ls_idle

NetNext == Construct \/ Next \/ Test

SpecNet == NetInit /\ [][NetNext]_vars

\* the positions of the interpreter in __init__ and train()
Positions == {"new", "constructed", "run_start", "epi_start", "batch", "epi_end",
              "assess_stop", "run_end", "done", "error", "tested"}

\* __init__ or train() has neither returned nor raised
running == pc \notin {"done", "error", "tested"}

\* the interpreter moves on: every step of __init__ and train() changes the
\* position or the index of the mini-batch, and while the call is running a
\* step is possible (each statement either completes or raises)
Advance ==
  /\ running
  /\ pc' \in Positions
  /\ b' \in 0..(n_batches + 1)
  /\ <<pc', b'>> # <<pc, b>>

\* train() is one sequential call on one thread: while it is running the
\* interpreter keeps executing its statements
SpecNetFair == NetInit /\ [][NetNext]_vars /\ WF_<<pc, b>>(Advance)

(***************************************************************************)
(* Claims about the dopamine table, the learning rates, the accuracy and   *)
(* the end of training                                                     *)
(***************************************************************************)
\* the entry of a dopamine table for a predicted and a delivered reward
table_entry(t, predicted, delivered) ==
  IF delivered THEN (IF predicted THEN t.dMid ELSE t.dHigh)
  ELSE (IF predicted THEN t.dLow ELSE t.dNeut)

\* the table of the output layer as the constructor's parameters describe it
table_out_configured == IF cfg.dopa_out_same THEN cfg.dopa_values ELSE cfg.dopa_values_out

\* a batch has been propagated, rewarded and learned from
batch_recorded == step.e >= 0

\* C21: the dopamine value _dopa_release computes for a sample of a batch is
\* exactly the entry of the configured table selected by the pair (reward
\* predicted, reward delivered) of that sample: for the output layer, where
\* it is modulated, the entry of the hidden table when dopa_out_same is set
\* and of the *_out table otherwise; for the hidden layer, in the dopamine
\* period, the entry of the hidden table.
C21_DopaIsTableEntry ==
  batch_recorded =>
    /\ step.branch = "out" =>
         \A s \in 1..Len(step.dopa_out) :
            step.dopa_out[s] = table_entry(table_out_configured,
                                 step.predicted_reward_out[s], step.reward_out[s])
    /\ step.branch = "hid" =>
         \A s \in 1..Len(step.dopa_hid) :
            step.dopa_hid[s] = table_entry(cfg.dopa_values,
                                 step.predicted_reward_hid[s], step.reward_hid[s])

\* an output-layer release from the separate table: a predicted reward that
\* was not delivered gives dLow_out
C21_Witness ==
  /\ batch_recorded /\ step.branch = "out" /\ ~cfg.dopa_out_same
  /\ step.predicted_reward_out[1] /\ ~step.reward_out[1]
  /\ step.dopa_out[1] = cfg.dopa_values_out.dLow
  /\ step.dopa_out[1] # cfg.dopa_values.dLow

\* C24: every learning step applied to the output layer uses the configured
\* lr_out as its learning rate, in every period (critical, fine, dopamine and
\* post).
C24_OutputRateIsConfigured ==
  (batch_recorded /\ train_class_layer(cfg)) => step.lr_out = cfg.lr_out

\* C25: during every fine and post episode the hidden layer does not learn:
\* the learning step of each batch leaves hid_W entry for entry unchanged,
\* whatever the activations, the dopamine values and the values the matrix
\* held when the period began (freshly initialized weights included).
C25_HiddenFrozenInFineAndPost ==
  [][(pc = "batch" /\ in_fine_or_post(cfg, e)) => hid_W' = hid_W]_vars

\* the hidden-derived choice passes through the same soft-max as the greedy
\* one: no soft-max at all ('neural_prob'), a copy of the greedy output (no
\* exploration of the hidden layer), or equal temperatures
same_softmax == cfg.classifier = "neural_prob" \/ ~step.x_hid \/ cfg.t_hid = cfg.t_out

n_presented == n_batches * cfg.batch_size

\* the episode's accuracy has just been written to the trace
accuracy_written == pc = "assess_stop"

\* C27: the training accuracy recorded for an episode is the fraction of the
\* samples presented in that episode that the greedy choice classified
\* correctly: it lies between 0 and 1, and it is 1.0 exactly when every
\* presented sample was classified correctly, for every data-set size and
\* batch size (sizes that are not a multiple of the batch size included).
C27_AccuracyOverPresented ==
  accuracy_written =>
    LET acc == perf_train_prog[r + 1][perf_index(e)]
    IN  /\ acc \in 0..PerfOne
        /\ n_presented > 0 => acc = (correct * PerfOne) \div n_presented
        /\ (acc = PerfOne) <=> (correct = n_presented)

\* C29: with classifier 'neural_prob' no batch changes out_W (the learning
\* rule is never applied to it): it changes only at the end of an episode,
\* where it is recomputed from the episode's data and the current hidden
\* weights.  With classifier 'neural_DA' out_W is changed by the learning
\* steps of the batches only.  (The head of a run installs the initial
\* weights for either classifier.)
C29_OutputWeightWriters ==
  [][/\ (cfg.classifier = "neural_prob" /\ pc = "batch") => out_W' = out_W
     /\ (cfg.classifier = "neural_prob" /\ out_W' # out_W) => pc \in {"run_start", "epi_end"}
     /\ (cfg.classifier = "neural_prob" /\ pc = "epi_end") =>
           out_W' = learn_out_proba(cfg, classes, rnd.images, rnd.labels, hid_W, out_W)
     /\ (cfg.classifier = "neural_DA" /\ out_W' # out_W) => pc \in {"run_start", "batch"}]_vars

\* under 'neural_prob' the end of an episode has just replaced out_W, after
\* batches that left it alone
C29_Witness ==
  /\ cfg.classifier = "neural_prob"
  /\ pc = "assess_stop" /\ n_updates > 0
  /\ r < Len(ref_naive) /\ e = 0
  /\ out_W # init_weights(cfg, r, rng_seed(cfg.seed + r), images, n_inp_neurons, cfg.n_hid_neurons, n_out_neurons, saved, hid_W, out_W).out_W

\* the episodes a run is configured to execute
n_epi_configured == cfg.n_epi_crit + cfg.n_epi_fine + cfg.n_epi_dopa + cfg.n_epi_post

\* the mini-batches of an episode: floor(n_images / batch_size)
batches_per_episode == NRows(cfg.data.images) \div cfg.batch_size

\* train() has returned or raised
train_over == pc \in {"done", "error"}

\* the evaluator has just stopped the current run
stopped_early == cfg.early_stop /\ es_last.called /\ es_last.ret /\ es_last.r = r /\ es_last.e = e

\* the counts of episodes and of batch updates of the current run
C30_Counts ==
  /\ Len(epi_log) <= n_epi_configured
  /\ pc = "epi_end" => /\ b = batches_per_episode
                       /\ n_updates = Len(epi_log) * batches_per_episode
  /\ pc = "run_end" => /\ n_updates = Len(epi_log) * batches_per_episode
                       /\ Len(epi_log) = n_epi_configured \/ stopped_early
                       /\ ~cfg.early_stop => Len(epi_log) = n_epi_configured

\* C30: training always terminates; each run performs at most n_epi_tot
\* episodes and each episode exactly floor(n_images / batch_size) batch
\* updates; only an early stop ends a run before n_epi_tot episodes, and
\* with early_stop disabled every run executes exactly n_epi_tot episodes.
C30_TrainingTerminates == (<>train_over) /\ []C30_Counts

\* a run without early stop has executed all its episodes, two of them, each
\* of one batch of two of the three images
C30_Witness ==
  /\ pc = "run_end" /\ ~cfg.early_stop
  /\ cfg.data = DataOdd /\ cfg.batch_size = 2
  /\ n_epi_configured = 2 /\ Len(epi_log) = 2 /\ n_updates = 2

\* C23: when init_file is 'NO_INIT' the weight initialization at the head of
\* a run leaves hid_W and out_W exactly as they were and raises no error,
\* whatever weight_init is.
C23_NoInitKeepsWeights ==
  [][(run_started /\ cfg.init_file = "NO_INIT") =>
        /\ hid_W' = hid_W /\ out_W' = out_W
        /\ err' = "none" /\ pc' # "error"]_vars

(***************************************************************************)
(* Claims about test()                                                     *)
(***************************************************************************)
\* a call of test() on the trained network
test_called == pc = "done" /\ pc' = "tested"

\* the end of an episode in which _assess_perf_progress calls test()
test_called_in_training == pc = "epi_end" /\ pc' = "assess_stop" /\ cfg.test_each_epi

\* a trace differs from the one before at most in the entry of episode ep of
\* run rn (both counted from 0)
only_entry_written(old, new, rn, ep) ==
  /\ Len(new) = Len(old)
  /\ \A i \in 1..Len(old) :
       /\ Len(new[i]) = Len(old[i])
       /\ \A k \in 1..Len(old[i]) : (i # rn + 1 \/ k # ep + 1) => new[i][k] = old[i][k]

\* C22: test() changes no training state.  Called on a trained network it
\* leaves hid_W, out_W, the naive and trained snapshots, the performance
\* traces and the caller's image arrays as they were.  Called at the end of
\* an episode (test_each_epi) it leaves hid_W and the images as they were,
\* the output weights and the snapshots get exactly what the end of the
\* episode gives them without the test, and of the traces only the entries
\* of the current run and episode, which the caller writes, differ.
C22_TestLeavesTrainingState ==
  [][/\ test_called =>
          /\ hid_W' = hid_W /\ out_W' = out_W
          /\ hid_W_naive' = hid_W_naive /\ out_W_naive' = out_W_naive
          /\ hid_W_trained' = hid_W_trained /\ out_W_trained' = out_W_trained
          /\ perf_train_prog' = perf_train_prog /\ perf_test_prog' = perf_test_prog
          /\ cfg' = cfg
     /\ test_called_in_training =>
          /\ hid_W' = hid_W
          /\ out_W' = out_W_after_episode(cfg, classes, rnd.images, rnd.labels, hid_W, out_W)
          /\ hid_W_naive' = IF naive_at_epi_end(cfg, e)
                            THEN [hid_W_naive EXCEPT ![r + 1] = hid_W] ELSE hid_W_naive
          /\ out_W_naive' = IF naive_at_epi_end(cfg, e)
                            THEN [out_W_naive EXCEPT ![r + 1] = out_W'] ELSE out_W_naive
          /\ hid_W_trained' = hid_W_trained /\ out_W_trained' = out_W_trained
          /\ only_entry_written(perf_train_prog, perf_train_prog', r, e)
          /\ only_entry_written(perf_test_prog, perf_test_prog', r, e)
          /\ cfg' = cfg]_vars

\* test() has run on a network trained in two runs, after episodes that
\* called it too, and has filled perf_dict
C22_Witness ==
  /\ pc = "tested" /\ perf_dict.set
  /\ cfg.test_each_epi /\ cfg.n_runs = 2
  /\ Len(perf_dict.perf_all) = 2
  /\ Len(perf_test_prog) = 2 /\ Len(perf_test_prog[2]) >= 1
  /\ perf_test_prog[2][1] # PerfUnset
  /\ hid_W = hid_W_trained[2] /\ out_W = out_W_trained[2]

\* the result test() reports for run iw when it classifies with the trained
\* matrices of that run, drawing its noise where test() drew it
own_results(iw) ==
  test_classify(cfg, perf_dict.rng_at[iw], classes, cfg.data_test.images,
                hid_W_trained[iw], out_W_trained[iw])

\* what C28 says of the snapshots, as a step property
snapshots_kept ==
  /\ pc = "run_end" => /\ hid_W_trained'[r + 1] = hid_W
                        /\ out_W_trained'[r + 1] = out_W
  /\ pc \in {"run_start", "epi_start", "batch", "epi_end", "assess_stop", "run_end", "done"} =>
       \A i \in 1..r : /\ hid_W_trained'[i] = hid_W_trained[i]
                       /\ out_W_trained'[i] = out_W_trained[i]

\* what C28 says of test(), as a property of the state test() leaves
scored_with_own_weights ==
  (pc = "tested") =>
     \A iw \in 1..cfg.n_runs :
        /\ perf_dict.perf_all[iw] = correct_classif(own_results(iw), cfg.data_test.labels)
        /\ perf_dict.CM_all[iw] = confusion_matrix(classes, own_results(iw), cfg.data_test.labels)

\* C28: the trained snapshot of a run is the pair of weight matrices the run
\* ended with, no later run changes it, and test() reports for every run the
\* performance and the confusion matrix obtained with the trained hidden and
\* output matrices of that run, whichever the classifier.
C28_RunsScoredWithOwnWeights == [][snapshots_kept]_vars /\ []scored_with_own_weights


====
